---- MODULE Spec2Model ----
(***************************************************************************)
(* geo-intel-offline: geohash codec, ray-casting point-in-polygon,         *)
(* confidence scoring, the DataLoader tables and the forward resolver.     *)
(*                                                                         *)
(* Number representation.  The program computes with IEEE doubles; the     *)
(* model computes with exact integers:                                     *)
(*   - a geometric coordinate of x degrees is the integer x * CoordDen     *)
(*     (CoordDen = 100, i.e. 1/100 degree);                                *)
(*   - the geohash codec works on x * GeoDen (GeoDen = 100 * 2^12), which  *)
(*     makes every midpoint that encode and decode compute an integer up   *)
(*     to precision 6;                                                     *)
(*   - a boundary distance is held in 1/1000 degree, rounded down;         *)
(*   - a confidence c is the integer c * ConfDen (ConfDen = 10^7), which   *)
(*     makes every value calculateConfidence can produce an integer.       *)
(* A geohash is the sequence of its characters.                            *)
(***************************************************************************)
EXTENDS Integers, Sequences, FiniteSets, TLC

\* The DataLoader's fields (_geohashIndex, _polygons, _metadata: None while
\* null, Some(table) once set; loadPromise), the data files of its dataDir
\* (None when they are missing) and the calls in progress.  _loader is the
\* module-level loader of data/loader.ts (None while null, Some of its
\* dataDir once created); monitor is a GeofenceMonitor (None while none is
\* constructed).
VARIABLES geohashIndex, polygons, metadata, loadPromise, files, tasks,
          _loader, monitor

vars == <<geohashIndex, polygons, metadata, loadPromise, files, tasks, _loader, monitor>>

\* The program evaluates eagerly, statement after statement: a value is
\* computed once, where it is assigned, and read many times.  Bind(v, F) is
\* F(v) with v computed first and once; it stands for `const x = v; ...`.
Bind(v, F(_)) == CHOOSE r \in { F(x) : x \in {v} } : TRUE

Pow2(n) == 2 ^ n

Abs(x) == IF x < 0 THEN -x ELSE x

Min(a, b) == IF a <= b THEN a ELSE b

Max(a, b) == IF a >= b THEN a ELSE b

RECURSIVE ISqrt(_)
ISqrt(n) ==
  IF n < 2 THEN n
  ELSE Bind(2 * ISqrt(n \div 4),
            LAMBDA s : IF (s + 1) * (s + 1) <= n THEN s + 1 ELSE s)

CoordDen == 10 * 10

GeoDen == CoordDen * Pow2(12)

DistDen == 10 * CoordDen

ConfDen == 10 ^ 7

(***************************************************************************)
(* pip: pointInPolygon, pointInPolygonWithHoles, distanceToPolygonEdge     *)
(***************************************************************************)

\* lon < (lat - lat_i) * (lon_j - lon_i) / (lat_j - lat_i) + lon_i, or
\* lon < lon_i when lon_j = lon_i; the quotient is compared exactly.
WestOfCrossing(lat, lon, lat_i, lon_i, lat_j, lon_j) ==
  IF lon_j # lon_i
  THEN LET num == (lat - lat_i) * (lon_j - lon_i)
           den == lat_j - lat_i
       IN  IF den > 0 THEN (lon - lon_i) * den < num
                      ELSE (lon - lon_i) * den > num
  ELSE lon < lon_i

RECURSIVE PipLoop(_, _, _, _, _)
PipLoop(point, polygon, i, j, inside) ==
  IF i > Len(polygon) THEN inside
  ELSE LET lat   == point[1]
           lon   == point[2]
           lat_i == polygon[i][1]
           lon_i == polygon[i][2]
           lat_j == polygon[j][1]
           lon_j == polygon[j][2]
           toggle == /\ (lat_i > lat) # (lat_j > lat)
                     /\ WestOfCrossing(lat, lon, lat_i, lon_i, lat_j, lon_j)
       IN  Bind(IF toggle THEN ~inside ELSE inside,
                LAMBDA next : PipLoop(point, polygon, i + 1, i, next))

\* The ray-casting loop without its closing edge: j starts at the first point.
PointInPolygonNoClosingEdge(point, polygon) ==
  IF Len(polygon) < 3 THEN FALSE
  ELSE PipLoop(point, polygon, 1, 1, FALSE)

PointInPolygon(point, polygon) ==
  IF Len(polygon) < 3 THEN FALSE
  ELSE PipLoop(point, polygon, 1, Len(polygon), FALSE)

RECURSIVE HolesLoop(_, _, _)
HolesLoop(point, holes, k) ==
  IF k > Len(holes) THEN TRUE
  ELSE IF PointInPolygon(point, holes[k]) THEN FALSE
  ELSE HolesLoop(point, holes, k + 1)

\* Only the first hole is subtracted.
PointInPolygonWithHolesFirstOnly(point, exterior, holes) ==
  IF ~PointInPolygon(point, exterior) THEN FALSE
  ELSE IF Len(holes) > 0 /\ PointInPolygon(point, holes[1]) THEN FALSE
  ELSE TRUE

PointInPolygonWithHoles(point, exterior, holes) ==
  IF ~PointInPolygon(point, exterior) THEN FALSE
  ELSE HolesLoop(point, holes, 1)

\* A distance that is larger than any the model's rings produce stands for
\* Infinity (empty ring).
Infinity == 10 ^ 9

\* Distance from point to the segment (p_i, p_j) in 1/DistDen degree.
SegmentDist(lat, lon, lat_i, lon_i, lat_j, lon_j) ==
  LET dx == lon_j - lon_i
      dy == lat_j - lat_i
      k  == (DistDen \div CoordDen) * (DistDen \div CoordDen)
  IN  IF dx = 0 /\ dy = 0
      THEN ISqrt(k * ((lat - lat_i) * (lat - lat_i) + (lon - lon_i) * (lon - lon_i)))
      ELSE LET num == (lat - lat_i) * dy + (lon - lon_i) * dx
               den == dx * dx + dy * dy
           IN  IF num <= 0
               THEN ISqrt(k * ((lat - lat_i) * (lat - lat_i)
                               + (lon - lon_i) * (lon - lon_i)))
               ELSE IF num >= den
               THEN ISqrt(k * ((lat - lat_j) * (lat - lat_j)
                               + (lon - lon_j) * (lon - lon_j)))
               ELSE LET cross == (lat - lat_i) * dx - (lon - lon_i) * dy
                    IN  ISqrt((k * cross * cross) \div den)

RECURSIVE EdgeLoop(_, _, _, _, _)
EdgeLoop(point, polygon, i, j, minDist) ==
  IF i > Len(polygon) THEN minDist
  ELSE Bind(SegmentDist(point[1], point[2], polygon[i][1], polygon[i][2],
                        polygon[j][1], polygon[j][2]),
            LAMBDA dist : EdgeLoop(point, polygon, i + 1, i,
                                   IF dist < minDist THEN dist ELSE minDist))

DistanceToPolygonEdge(point, polygon) ==
  IF Len(polygon) = 0 THEN Infinity
  ELSE EdgeLoop(point, polygon, 1, Len(polygon), Infinity)

(***************************************************************************)
(* geohash: encode, decode, getNeighbors                                   *)
(***************************************************************************)

BASE32 == << "0", "1", "2", "3", "4", "5", "6", "7", "8", "9", "b", "c", "d",
             "e", "f", "g", "h", "j", "k", "m", "n", "p", "q", "r", "s", "t",
             "u", "v", "w", "x", "y", "z" >>

GEOHASH_PRECISION == 6

bitsPerChar == 5

\* ch | (1 << pos)
OrBit(ch, pos) ==
  IF (ch \div Pow2(pos)) % 2 = 1 THEN ch ELSE ch + Pow2(pos)

\* The shift that encode applies for loop index i.
EncodeShift(i) == bitsPerChar - 1 - ((i \div 2) % bitsPerChar)

\* The range checks at the head of encode with the longitude check left out.
EncodeRangeAcceptsLatOnly(lat, lon) ==
  ~(lat < -90 * GeoDen \/ lat > 90 * GeoDen)

\* The two range checks at the head of encode.
EncodeRangeAccepts(lat, lon) ==
  /\ ~(lat < -90 * GeoDen \/ lat > 90 * GeoDen)
  /\ ~(lon < -180 * GeoDen \/ lon > 180 * GeoDen)

EncodeThrows(lat, lon) == ~EncodeRangeAccepts(lat, lon)

\* One iteration of encode's loop, before the flush test: state is
\* [latRange, lonRange, ch].
EncodeStep(i, lat, lon, state) ==
  Bind(state, LAMBDA st :
    IF i % 2 = 0
    THEN LET mid == (st.lonRange[1] + st.lonRange[2]) \div 2
         IN  IF lon >= mid
             THEN [st EXCEPT !.ch = OrBit(st.ch, EncodeShift(i)),
                             !.lonRange = <<mid, st.lonRange[2]>>]
             ELSE [st EXCEPT !.lonRange = <<st.lonRange[1], mid>>]
    ELSE LET mid == (st.latRange[1] + st.latRange[2]) \div 2
         IN  IF lat >= mid
             THEN [st EXCEPT !.ch = OrBit(st.ch, EncodeShift(i)),
                             !.latRange = <<mid, st.latRange[2]>>]
             ELSE [st EXCEPT !.latRange = <<st.latRange[1], mid>>])

\* The iterations i = 5c .. 5c + 4 of encode's loop, the last of which pushes
\* BASE32[ch] and resets ch; then the iterations of the next characters.
RECURSIVE EncodeLoop(_, _, _, _, _, _, _)
EncodeLoop(c, lat, lon, latRange, lonRange, geohash, precision) ==
  IF ~(c < precision) THEN geohash
  ELSE LET i0 == c * bitsPerChar
           s0 == [latRange |-> latRange, lonRange |-> lonRange, ch |-> 0]
       IN  Bind(EncodeStep(i0 + 4, lat, lon,
                  EncodeStep(i0 + 3, lat, lon,
                    EncodeStep(i0 + 2, lat, lon,
                      EncodeStep(i0 + 1, lat, lon,
                        EncodeStep(i0, lat, lon, s0))))),
                LAMBDA s5 :
                  EncodeLoop(c + 1, lat, lon, s5.latRange, s5.lonRange,
                             Append(geohash, BASE32[s5.ch + 1]), precision))

\* encode(lat, lon, precision) when it does not throw.
Encode(lat, lon, precision) ==
  Bind(<<lat, lon, precision>>, LAMBDA a :
    EncodeLoop(0, a[1], a[2], <<-90 * GeoDen, 90 * GeoDen>>,
               <<-180 * GeoDen, 180 * GeoDen>>, <<>>, a[3]))

\* BASE32.indexOf(char): 0..31, or -1.
IndexOf(char) ==
  IF \E k \in 1..Len(BASE32) : BASE32[k] = char
  THEN (CHOOSE k \in 1..Len(BASE32) : BASE32[k] = char) - 1
  ELSE -1

DecodeThrows(geohash) ==
  \/ Len(geohash) = 0
  \/ \E k \in 1..Len(geohash) : IndexOf(geohash[k]) = -1

\* One iteration of decode's inner loop: bit j of character index idx, n
\* bits having been consumed before (isEven = n is even); ranges is
\* <<latRange, lonRange>>.
DecodeStep(idx, j, n, ranges) ==
  Bind(ranges, LAMBDA r :
    LET bit == (idx \div Pow2(4 - j)) % 2
        isEven == (n % 2 = 0)
        mid == IF isEven THEN (r[2][1] + r[2][2]) \div 2
                         ELSE (r[1][1] + r[1][2]) \div 2
    IN  IF isEven
        THEN <<r[1], IF bit = 1 THEN <<mid, r[2][2]>> ELSE <<r[2][1], mid>> >>
        ELSE <<IF bit = 1 THEN <<mid, r[1][2]>> ELSE <<r[1][1], mid>>, r[2]>>)

\* decode's loop over the characters, from character c (1-based) on.
RECURSIVE DecodeLoop(_, _, _)
DecodeLoop(geohash, c, r) ==
  IF c > Len(geohash) THEN r
  ELSE LET idx == IndexOf(geohash[c])
           n0 == (c - 1) * bitsPerChar
       IN  Bind(DecodeStep(idx, 4, n0 + 4,
                  DecodeStep(idx, 3, n0 + 3,
                    DecodeStep(idx, 2, n0 + 2,
                      DecodeStep(idx, 1, n0 + 1,
                        DecodeStep(idx, 0, n0, r))))),
                LAMBDA r5 : DecodeLoop(geohash, c + 1, r5))

\* decode(geohash) when it does not throw.
Decode(geohash) ==
  Bind(DecodeLoop(geohash, 1, << <<-90 * GeoDen, 90 * GeoDen>>,
                                 <<-180 * GeoDen, 180 * GeoDen>> >>),
       LAMBDA r : [lat |-> (r[1][1] + r[1][2]) \div 2,
                   lon |-> (r[2][1] + r[2][2]) \div 2,
                   latRange |-> r[1],
                   lonRange |-> r[2]])

\* getNeighbors(hash): the 8 re-encoded, clamped offsets of the cell centre,
\* dlat outer, dlon inner, (0, 0) skipped.
GetNeighbors(hash) ==
  Bind(hash, LAMBDA geohash :
    Bind(Decode(geohash), LAMBDA d :
      LET latStep == d.latRange[2] - d.latRange[1]
          lonStep == d.lonRange[2] - d.lonRange[1]
          at(dlat, dlon) ==
            Encode(Max(-90 * GeoDen, Min(90 * GeoDen, d.lat + dlat)),
                   Max(-180 * GeoDen, Min(180 * GeoDen, d.lon + dlon)),
                   Len(geohash))
      IN  << at(-latStep, -lonStep), at(-latStep, 0), at(-latStep, lonStep),
             at(0, -lonStep), at(0, lonStep),
             at(latStep, -lonStep), at(latStep, 0), at(latStep, lonStep) >>))

(***************************************************************************)
(* utils/confidence: calculateConfidence                                   *)
(***************************************************************************)

RECURSIVE MinDistLoop(_, _, _, _)
MinDistLoop(point, holes, k, minDist) ==
  IF k > Len(holes) THEN minDist
  ELSE Bind(DistanceToPolygonEdge(point, holes[k]),
            LAMBDA holeDist : MinDistLoop(point, holes, k + 1,
                                          IF holeDist < minDist THEN holeDist
                                          ELSE minDist))

\* Variant: the tier from 0.05 to 0.1 degree starts at 0.84, under the end of
\* the tier before it.
BaseConfidenceLoweredTier(minDist) ==
  IF minDist >= DistDen \div 10
  THEN 98 * (ConfDen \div 100)
  ELSE IF minDist >= 5 * (DistDen \div 100)
  THEN 84 * (ConfDen \div 100)
       + ((minDist - 5 * (DistDen \div 100)) * 10 * (ConfDen \div 100))
           \div (5 * (DistDen \div 100))
  ELSE IF minDist >= DistDen \div 100
  THEN 75 * (ConfDen \div 100)
       + ((minDist - DistDen \div 100) * 13 * (ConfDen \div 100))
           \div (4 * (DistDen \div 100))
  ELSE 70 * (ConfDen \div 100)
       + (minDist * 5 * (ConfDen \div 100)) \div (DistDen \div 100)

\* The piecewise-linear map from the boundary distance (1/DistDen degree) to
\* the base confidence: breakpoints 0.1, 0.05 and 0.01 degree.
BaseConfidence(minDist) ==
  IF minDist >= DistDen \div 10
  THEN 98 * (ConfDen \div 100)
  ELSE IF minDist >= 5 * (DistDen \div 100)
  THEN 88 * (ConfDen \div 100)
       + ((minDist - 5 * (DistDen \div 100)) * 10 * (ConfDen \div 100))
           \div (5 * (DistDen \div 100))
  ELSE IF minDist >= DistDen \div 100
  THEN 75 * (ConfDen \div 100)
       + ((minDist - DistDen \div 100) * 13 * (ConfDen \div 100))
           \div (4 * (DistDen \div 100))
  ELSE 70 * (ConfDen \div 100)
       + (minDist * 5 * (ConfDen \div 100)) \div (DistDen \div 100)

\* Variant: the ambiguity penalty without its cap of 0.2.
ConfidenceOfDistanceUncapped(minDist, candidateCount) ==
  LET base == BaseConfidence(minDist)
      penalty == (candidateCount - 1) * 5 * (ConfDen \div 100)
      penalized == IF candidateCount > 1 THEN base - penalty ELSE base
  IN  Max(ConfDen \div 2, Min(ConfDen, penalized))

\* The ambiguity penalty and the clamp to [0.5, 1.0].
ConfidenceOfDistance(minDist, candidateCount) ==
  LET base == BaseConfidence(minDist)
      penalty == Min(20 * (ConfDen \div 100),
                     (candidateCount - 1) * 5 * (ConfDen \div 100))
      penalized == IF candidateCount > 1 THEN base - penalty ELSE base
  IN  Max(ConfDen \div 2, Min(ConfDen, penalized))

CalculateConfidence(point, polygon, holes, candidateCount) ==
  Bind(DistanceToPolygonEdge(point, polygon),
       LAMBDA edgeDist :
         Bind(MinDistLoop(point, holes, 1, edgeDist),
              LAMBDA minDist : ConfidenceOfDistance(minDist, candidateCount)))

(***************************************************************************)
(* data/loader: the DataLoader tables and their accessors                  *)
(***************************************************************************)

\* A JavaScript value that may be null or undefined: None, or Some(v).
None == <<>>

Some(v) == <<v>>

\* Array.from(new Set(xs)): first occurrences, in order.
Dedupe(list) ==
  Bind(list, LAMBDA xs :
    Bind({ k \in 1..Len(xs) : \A j \in 1..(k - 1) : xs[j] # xs[k] },
         LAMBDA firsts :
           SubSeq([n \in 1..Cardinality(firsts) |->
                     xs[CHOOSE k \in firsts :
                          Cardinality({ j \in firsts : j < k }) = n - 1]],
                  1, Cardinality(firsts))))

\* The prefix loop of getCandidateCountries: the list under the longest prefix
\* that is a key, from prefixLen down to 1.
\* Variant: a key whose list is empty does not stop the prefix loop.
RECURSIVE PrefixLookupSkipsEmpty(_, _, _)
PrefixLookupSkipsEmpty(index, geohash, prefixLen) ==
  IF prefixLen <= 0 THEN <<>>
  ELSE IF /\ SubSeq(geohash, 1, prefixLen) \in DOMAIN index
          /\ Len(index[SubSeq(geohash, 1, prefixLen)]) > 0
  THEN index[SubSeq(geohash, 1, prefixLen)]
  ELSE PrefixLookupSkipsEmpty(index, geohash, prefixLen - 1)

RECURSIVE PrefixLookup(_, _, _)
PrefixLookup(index, geohash, prefixLen) ==
  IF prefixLen <= 0 THEN <<>>
  ELSE IF SubSeq(geohash, 1, prefixLen) \in DOMAIN index
  THEN index[SubSeq(geohash, 1, prefixLen)]
  ELSE PrefixLookup(index, geohash, prefixLen - 1)

GetCandidateCountries(index, geohash) ==
  Bind(IF geohash \in DOMAIN index THEN index[geohash] ELSE <<>>,
       LAMBDA exact :
         Dedupe(IF Len(exact) = 0
                THEN PrefixLookup(index, geohash, Len(geohash))
                ELSE exact))

\* Object.keys(table) read as numbers: integer keys, ascending.
RECURSIVE SortedKeys(_)
SortedKeys(S) ==
  IF S = {} THEN <<>>
  ELSE Bind(CHOOSE x \in S : \A y \in S : x <= y,
            LAMBDA m : <<m>> \o SortedKeys(S \ {m}))

AllCountryIds(meta) == SortedKeys(DOMAIN meta)

(***************************************************************************)
(* resolver: resolve(lat, lon, loader) after its await of loader.load()    *)
(***************************************************************************)

\* The exterior rings resolve tests for a polygon record.  A record's
\* exterior is a ring, <<>> when the record has none; exteriors is None or
\* Some(list of rings); holes is a list of rings, <<>> when the record has none.
ExteriorsOf(polygonData) ==
  IF polygonData.multi /\ polygonData.exteriors # None
  THEN polygonData.exteriors[1]
  ELSE IF Len(polygonData.exterior) > 0 THEN <<polygonData.exterior>>
  ELSE <<>>

\* The holes list resolve builds: the non-empty holes, in order.
RECURSIVE HolesOf(_)
HolesOf(holes) ==
  IF Len(holes) = 0 THEN <<>>
  ELSE LET init == HolesOf(SubSeq(holes, 1, Len(holes) - 1))
           last == holes[Len(holes)]
       IN  IF Len(last) > 0 THEN Append(init, last) ELSE init

\* The loop over a record's exteriors with the holes left out of the test.
RECURSIVE ExteriorLoopIgnoringHoles(_, _, _, _, _)
ExteriorLoopIgnoringHoles(point, exteriors, holes, k, candidateCount) ==
  IF k > Len(exteriors) THEN None
  ELSE IF Len(exteriors[k]) = 0
  THEN ExteriorLoopIgnoringHoles(point, exteriors, holes, k + 1, candidateCount)
  ELSE IF PointInPolygon(point, exteriors[k])
  THEN Some(CalculateConfidence(point, exteriors[k], holes, candidateCount))
  ELSE ExteriorLoopIgnoringHoles(point, exteriors, holes, k + 1, candidateCount)

\* The loop over a record's exteriors: Some(confidence) for the first exterior
\* that contains the point, None when no exterior does.
RECURSIVE ExteriorLoop(_, _, _, _, _)
ExteriorLoop(point, exteriors, holes, k, candidateCount) ==
  IF k > Len(exteriors) THEN None
  ELSE IF Len(exteriors[k]) = 0
  THEN ExteriorLoop(point, exteriors, holes, k + 1, candidateCount)
  ELSE IF PointInPolygonWithHoles(point, exteriors[k], holes)
  THEN Some(CalculateConfidence(point, exteriors[k], holes, candidateCount))
  ELSE ExteriorLoop(point, exteriors, holes, k + 1, candidateCount)

\* Step 4: the matches among the candidates, in candidate order.
RECURSIVE CandidateScan(_, _, _, _)
CandidateScan(point, candidates, k, polys) ==
  IF k > Len(candidates) THEN <<>>
  ELSE LET countryId == candidates[k]
           rest == CandidateScan(point, candidates, k + 1, polys)
       IN  IF countryId \notin DOMAIN polys THEN rest
           ELSE Bind(ExteriorLoop(point, ExteriorsOf(polys[countryId]),
                                  HolesOf(polys[countryId].holes), 1,
                                  Len(candidates)),
                     LAMBDA m :
                       IF m = None THEN rest
                       ELSE <<[countryId |-> countryId,
                               confidence |-> m[1]]>> \o rest)

\* The fallback scan with its exclusion test inverted: only the candidates
\* are scanned again.
RECURSIVE FallbackScanInverted(_, _, _, _, _)
FallbackScanInverted(point, ids, k, candidates, polys) ==
  IF k > Len(ids) THEN <<>>
  ELSE LET countryId == ids[k]
           rest == FallbackScanInverted(point, ids, k + 1, candidates, polys)
       IN  IF ~(\E c \in 1..Len(candidates) : candidates[c] = countryId) THEN rest
           ELSE IF countryId \notin DOMAIN polys THEN rest
           ELSE Bind(ExteriorLoop(point, ExteriorsOf(polys[countryId]),
                                  HolesOf(polys[countryId].holes), 1, 1),
                     LAMBDA m :
                       IF m = None THEN rest
                       ELSE <<[countryId |-> countryId,
                               confidence |-> (m[1] * 95) \div 100]>> \o rest)

\* The fallback scan with the discount subtracted instead of multiplied.
RECURSIVE FallbackScanSubtracts(_, _, _, _, _)
FallbackScanSubtracts(point, ids, k, candidates, polys) ==
  IF k > Len(ids) THEN <<>>
  ELSE LET countryId == ids[k]
           rest == FallbackScanSubtracts(point, ids, k + 1, candidates, polys)
       IN  IF \E c \in 1..Len(candidates) : candidates[c] = countryId THEN rest
           ELSE IF countryId \notin DOMAIN polys THEN rest
           ELSE Bind(ExteriorLoop(point, ExteriorsOf(polys[countryId]),
                                  HolesOf(polys[countryId].holes), 1, 1),
                     LAMBDA m :
                       IF m = None THEN rest
                       ELSE <<[countryId |-> countryId,
                               confidence |-> m[1] - 95 * (ConfDen \div 100)]>> \o rest)

\* Variant: the fallback scan scores with the number of candidates.
RECURSIVE FallbackScanCountsCandidates(_, _, _, _, _)
FallbackScanCountsCandidates(point, ids, k, candidates, polys) ==
  IF k > Len(ids) THEN <<>>
  ELSE LET countryId == ids[k]
           rest == FallbackScanCountsCandidates(point, ids, k + 1, candidates, polys)
       IN  IF \E c \in 1..Len(candidates) : candidates[c] = countryId THEN rest
           ELSE IF countryId \notin DOMAIN polys THEN rest
           ELSE Bind(ExteriorLoop(point, ExteriorsOf(polys[countryId]),
                                  HolesOf(polys[countryId].holes), 1, Len(candidates)),
                     LAMBDA m :
                       IF m = None THEN rest
                       ELSE <<[countryId |-> countryId,
                               confidence |-> (m[1] * 95) \div 100]>> \o rest)

\* Step 5: the scan of every metadata key that was no candidate, with the
\* fallback discount of 0.95.
RECURSIVE FallbackScan(_, _, _, _, _)
FallbackScan(point, ids, k, candidates, polys) ==
  IF k > Len(ids) THEN <<>>
  ELSE LET countryId == ids[k]
           rest == FallbackScan(point, ids, k + 1, candidates, polys)
       IN  IF \E c \in 1..Len(candidates) : candidates[c] = countryId THEN rest
           ELSE IF countryId \notin DOMAIN polys THEN rest
           ELSE Bind(ExteriorLoop(point, ExteriorsOf(polys[countryId]),
                                  HolesOf(polys[countryId].holes), 1, 1),
                     LAMBDA m :
                       IF m = None THEN rest
                       ELSE <<[countryId |-> countryId,
                               confidence |-> (m[1] * 95) \div 100]>> \o rest)

\* m placed after every element whose confidence is not below its own.
RECURSIVE InsertMatch(_, _)
InsertMatch(sorted, m) ==
  IF Len(sorted) = 0 THEN <<m>>
  ELSE IF sorted[1].confidence >= m.confidence
  THEN <<sorted[1]>> \o InsertMatch(Tail(sorted), m)
  ELSE <<m>> \o sorted

\* The sort with its comparator reversed: ascending.
RECURSIVE InsertMatchAscending(_, _)
InsertMatchAscending(sorted, m) ==
  IF Len(sorted) = 0 THEN <<m>>
  ELSE IF sorted[1].confidence <= m.confidence
  THEN <<sorted[1]>> \o InsertMatchAscending(Tail(sorted), m)
  ELSE <<m>> \o sorted

RECURSIVE SortMatchesAscending(_)
SortMatchesAscending(matches) ==
  IF Len(matches) = 0 THEN <<>>
  ELSE Bind(SortMatchesAscending(SubSeq(matches, 1, Len(matches) - 1)),
            LAMBDA sorted : InsertMatchAscending(sorted, matches[Len(matches)]))

\* matches.sort((a, b) => b.confidence - a.confidence): stable, descending.
RECURSIVE SortMatches(_)
SortMatches(matches) ==
  IF Len(matches) = 0 THEN <<>>
  ELSE Bind(SortMatches(SubSeq(matches, 1, Len(matches) - 1)),
            LAMBDA sorted : InsertMatch(sorted, matches[Len(matches)]))

\* The candidate lists of a list of geohashes, concatenated.
RECURSIVE LookupAll(_, _, _)
LookupAll(index, hashes, k) ==
  IF k > Len(hashes) THEN <<>>
  ELSE GetCandidateCountries(index, hashes[k]) \o LookupAll(index, hashes, k + 1)

\* Variant: the extended neighbours with the primary geohash kept.
ExtendedNeighborsWithPrimary(geohash) ==
  Bind(GetNeighbors(geohash), LAMBDA neighbors :
    LET ext(b) == <<neighbors[b]>> \o GetNeighbors(neighbors[b])
    IN  Dedupe(ext(1) \o ext(2) \o ext(3) \o ext(4)
                 \o ext(5) \o ext(6) \o ext(7) \o ext(8)))

\* Step 3b: each of the 8 neighbours followed by its own neighbours, as a Set
\* (first occurrences in insertion order), the primary geohash skipped.
ExtendedNeighbors(geohash) ==
  Bind(GetNeighbors(geohash), LAMBDA neighbors :
    LET ext(b) == <<neighbors[b]>> \o GetNeighbors(neighbors[b])
    IN  Bind(Dedupe(ext(1) \o ext(2) \o ext(3) \o ext(4)
                      \o ext(5) \o ext(6) \o ext(7) \o ext(8)),
             LAMBDA extendedNeighbors :
               SelectSeq(extendedNeighbors, LAMBDA h : h # geohash)))

NoMatchResult ==
  [countryId |-> None, countryName |-> None, iso2 |-> None, iso3 |-> None,
   continent |-> None, timezone |-> None, confidence |-> 0]

GeoOf(c) == c * (GeoDen \div CoordDen)

\* What a call returns: it threw, or it returned result (Some(value)); for
\* resolve also the geohashes it passed to getCandidateCountries and the
\* candidate list it scanned.
Thrown == [threw |-> TRUE, result |-> None, lookups |-> <<>>, candidates |-> <<>>]

Returned(value, lookups, candidates) ==
  [threw |-> FALSE, result |-> Some(value), lookups |-> lookups,
   candidates |-> candidates]

\* Step 3c: every metadata key, when the lookups gave no candidate.
CandidatesOrAll(found, lookups, meta) ==
  [candidates |-> IF Len(found) = 0 THEN AllCountryIds(meta) ELSE found,
   lookups |-> lookups]

\* Step 3b: the extended neighbours, when the neighbours gave no candidate.
ExtendedStage(geohash, found, lookups, index, meta) ==
  IF Len(found) > 0 THEN CandidatesOrAll(found, lookups, meta)
  ELSE Bind(ExtendedNeighbors(geohash), LAMBDA extendedNeighbors :
         Bind(Dedupe(LookupAll(index, extendedNeighbors, 1)),
              LAMBDA extendedCandidates :
                CandidatesOrAll(extendedCandidates,
                                lookups \o extendedNeighbors, meta)))

\* Steps 2 to 3c: the candidates, with the geohashes looked up on the way.
CandidateStages(geohash, index, meta) ==
  Bind(GetCandidateCountries(index, geohash), LAMBDA primary :
    IF Len(primary) > 0
    THEN ExtendedStage(geohash, primary, <<geohash>>, index, meta)
    ELSE Bind(GetNeighbors(geohash), LAMBDA neighbors :
           Bind(Dedupe(LookupAll(index, neighbors, 1)),
                LAMBDA neighborCandidates :
                  ExtendedStage(geohash, neighborCandidates,
                                <<geohash>> \o neighbors, index, meta))))

\* Variant: a best match without metadata gives the no-match result.
MatchStageWithoutThrow(point, st, polys, meta) ==
  Bind(CandidateScan(point, st.candidates, 1, polys), LAMBDA direct :
    Bind(IF Len(direct) = 0
         THEN FallbackScan(point, AllCountryIds(meta), 1, st.candidates, polys)
         ELSE direct,
         LAMBDA matches :
           IF Len(matches) = 0
           THEN Returned(NoMatchResult, st.lookups, st.candidates)
           ELSE Bind(SortMatches(matches)[1], LAMBDA bestMatch :
                  IF bestMatch.countryId \notin DOMAIN meta
                  THEN Returned(NoMatchResult, st.lookups, st.candidates)
                  ELSE LET m == meta[bestMatch.countryId]
                       IN  Returned([countryId |-> Some(bestMatch.countryId),
                                     countryName |-> Some(m.name),
                                     iso2 |-> Some(m.iso2),
                                     iso3 |-> Some(m.iso3),
                                     continent |-> Some(m.continent),
                                     timezone |-> Some(m.timezone),
                                     confidence |-> bestMatch.confidence],
                                    st.lookups, st.candidates))))

\* Steps 4 and 5 and the selection of the best match.
MatchStage(point, st, polys, meta) ==
  Bind(CandidateScan(point, st.candidates, 1, polys), LAMBDA direct :
    Bind(IF Len(direct) = 0
         THEN FallbackScan(point, AllCountryIds(meta), 1, st.candidates, polys)
         ELSE direct,
         LAMBDA matches :
           IF Len(matches) = 0
           THEN Returned(NoMatchResult, st.lookups, st.candidates)
           ELSE Bind(SortMatches(matches)[1], LAMBDA bestMatch :
                  IF bestMatch.countryId \notin DOMAIN meta
                  THEN [Thrown EXCEPT !.lookups = st.lookups,
                                      !.candidates = st.candidates]
                  ELSE LET m == meta[bestMatch.countryId]
                       IN  Returned([countryId |-> Some(bestMatch.countryId),
                                     countryName |-> Some(m.name),
                                     iso2 |-> Some(m.iso2),
                                     iso3 |-> Some(m.iso3),
                                     continent |-> Some(m.continent),
                                     timezone |-> Some(m.timezone),
                                     confidence |-> bestMatch.confidence],
                                    st.lookups, st.candidates))))

\* The body of resolve from the encode on.
ResolveRun(lat, lon, index, polys, meta) ==
  IF EncodeThrows(GeoOf(lat), GeoOf(lon)) THEN Thrown
  ELSE Bind(Encode(GeoOf(lat), GeoOf(lon), GEOHASH_PRECISION), LAMBDA geohash :
         Bind(CandidateStages(geohash, index, meta), LAMBDA st :
           IF Len(st.candidates) = 0
           THEN Returned(NoMatchResult, st.lookups, st.candidates)
           ELSE MatchStage(<<lat, lon>>, st, polys, meta)))

(***************************************************************************)
(* DataLoader.load and the calls of resolve as steps                       *)
(***************************************************************************)

Loaded == geohashIndex # None /\ polygons # None /\ metadata # None

\* What load() returns to its caller: an already resolved promise when the
\* three tables are set, the (possibly new) loadPromise otherwise.
LoadReturns(gi, po, me) ==
  IF gi # None /\ po # None /\ me # None THEN "resolved" ELSE "loadPromise"

\* load() without its test of the three tables: a load is started whenever no
\* promise is stored.
LoadPromiseAfterLoadUnchecked(gi, po, me, lp) ==
  IF lp # "null" THEN lp ELSE "pending"

\* load() that starts a load again whenever none is in flight.
LoadPromiseAfterLoadRestarts(gi, po, me, lp) ==
  IF lp = "pending" THEN lp ELSE "pending"

\* loadPromise after a call of load(): a new pending promise is created only
\* when the tables are not all set and no promise is stored.
LoadPromiseAfterLoad(gi, po, me, lp) ==
  IF gi # None /\ po # None /\ me # None THEN lp
  ELSE IF lp # "null" THEN lp
  ELSE "pending"

IdleTask ==
  [pc |-> "idle", op |-> "none", args |-> <<>>, awaiting |-> "none", ret |-> None]

\* resolve(lat, lon, loader) up to its await of loader.load().
ResolveStart(t, lat, lon) ==
  /\ tasks[t].pc \in {"idle", "done"}
  /\ loadPromise' = LoadPromiseAfterLoad(geohashIndex, polygons, metadata, loadPromise)
  /\ tasks' = [tasks EXCEPT ![t] =
                 [pc |-> "awaitLoad", op |-> "resolve", args |-> <<lat, lon>>,
                  awaiting |-> LoadReturns(geohashIndex, polygons, metadata),
                  ret |-> None]]
  /\ UNCHANGED <<_loader, monitor, geohashIndex, polygons, metadata, files>>

\* The promise a task awaits has been fulfilled.
AwaitDone(t) ==
  \/ tasks[t].awaiting = "resolved"
  \/ tasks[t].awaiting = "loadPromise" /\ loadPromise = "fulfilled"

\* resolve from the encode to its return or throw.
ResolveFinish(t) ==
  /\ tasks[t].pc = "awaitLoad"
  /\ tasks[t].op = "resolve"
  /\ AwaitDone(t)
  /\ Loaded
  /\ tasks' = [tasks EXCEPT ![t].pc = "done",
                            ![t].ret = Some(ResolveRun(tasks[t].args[1], tasks[t].args[2],
                                                       geohashIndex[1], polygons[1],
                                                       metadata[1]))]
  /\ UNCHANGED <<_loader, monitor, geohashIndex, polygons, metadata, loadPromise, files>>

\* The pending load settles: the three tables are set from the files read.
LoadComplete ==
  /\ loadPromise = "pending"
  /\ files # None
  /\ geohashIndex' = Some(files[1].geohashIndex)
  /\ polygons' = Some(files[1].polygons)
  /\ metadata' = Some(files[1].metadata)
  /\ loadPromise' = "fulfilled"
  /\ UNCHANGED <<_loader, monitor, files, tasks>>

\* The pending load fails (a data file is missing): loadPromise is reset and
\* every call awaiting it is rejected.
LoadFail ==
  /\ loadPromise = "pending"
  /\ files = None
  /\ loadPromise' = "null"
  /\ tasks' = [t \in DOMAIN tasks |->
                 IF tasks[t].pc = "awaitLoad" /\ tasks[t].awaiting = "loadPromise"
                 THEN [tasks[t] EXCEPT !.pc = "done",
                         !.ret = Some(Thrown)]
                 ELSE tasks[t]]
  /\ UNCHANGED <<_loader, monitor, geohashIndex, polygons, metadata, files>>

(***************************************************************************)
(* The data the model draws its DataStores and queries from                *)
(***************************************************************************)

MaxCountry == 2

CountryIds == 1..MaxCountry

\* Rings, in 1/100 degree, as [lat, lon] pairs.
SqA == << <<0, 0>>, <<0, 20>>, <<20, 20>>, <<20, 0>> >>

SqB == << <<10, 10>>, <<30, 10>>, <<30, 30>>, <<10, 30>> >>

HoleA == << <<5, 5>>, <<5, 15>>, <<15, 15>>, <<15, 5>> >>

Tri == << <<40, 40>>, <<40, 60>>, <<60, 40>> >>

\* Polygon records: a plain ring; a ring with a hole and an empty hole; a
\* multi-polygon whose exteriors differ from its exterior field.
PolygonPool ==
  { [multi |-> FALSE, exterior |-> SqB, exteriors |-> None, holes |-> <<>>],
    [multi |-> FALSE, exterior |-> SqA, exteriors |-> None, holes |-> <<HoleA, <<>> >>],
    [multi |-> TRUE, exterior |-> SqB, exteriors |-> Some(<<Tri, <<>>, SqA>>),
     holes |-> <<HoleA>>] }

PolygonTables == UNION { [D -> PolygonPool] : D \in SUBSET CountryIds }

CountryNames ==
  << <<"N", "i", "g", "e", "r">>, <<"N", "i", "g", "e", "r", "i", "a">>,
     <<"C", "h", "a", "d">>, <<"M", "a", "l", "i">>, <<"T", "o", "g", "o">> >>

Iso2Codes == << <<"N", "E">>, <<"N", "G">>, <<"T", "D">>, <<"M", "L">>, <<"T", "G">> >>

Iso3Codes ==
  << <<"N", "E", "R">>, <<"N", "G", "A">>, <<"T", "C", "D">>, <<"M", "L", "I">>,
     <<"T", "G", "O">> >>

MetaRecord(id) ==
  LET k == ((id - 1) % Len(CountryNames)) + 1
  IN  [name |-> CountryNames[k], iso2 |-> Iso2Codes[k], iso3 |-> Iso3Codes[k],
       continent |-> "Africa", timezone |-> "Africa/Lagos"]

\* Every country has a metadata record, or exactly one has none.
MetadataTables ==
  { [id \in D |-> MetaRecord(id)] :
      D \in {CountryIds} \cup { CountryIds \ {c} : c \in CountryIds } }

\* Query points: inside SqA, SqB and the hole; inside SqA and SqB; inside SqB
\* only; inside Tri; out of range.
QueryPoints ==
  { <<12, 12>>, <<18, 18>>, <<25, 25>>, <<45, 45>>, <<90 * CoordDen + 1, 0>> }

\* The geohash cell of a query point, the first neighbour of its cell, and the
\* first extended neighbour of its cell that is no neighbour.
KeyExact(q) == Encode(GeoOf(q[1]), GeoOf(q[2]), GEOHASH_PRECISION)

KeyNeighbor(q) == GetNeighbors(KeyExact(q))[1]

KeyExtended(q) ==
  LET ext == ExtendedNeighbors(KeyExact(q))
      nbs == GetNeighbors(KeyExact(q))
  IN  ext[CHOOSE k \in 1..Len(ext) :
            /\ \A n \in 1..Len(nbs) : nbs[n] # ext[k]
            /\ \A j \in 1..(k - 1) : \E n \in 1..Len(nbs) : nbs[n] = ext[j]]

\* No entry at all.
IndexEmpty == <<>>

\* Entries for the cells of the query points: candidates in order, with a
\* duplicate, an id that no table knows, a single candidate.
IndexCells ==
  (KeyExact(<<12, 12>>) :> <<1, 2>>) @@ (KeyExact(<<18, 18>>) :> <<2, 2, 1>>)
    @@ (KeyExact(<<25, 25>>) :> <<MaxCountry + 1>>) @@ (KeyExact(<<45, 45>>) :> <<2>>)

\* Entries for prefixes only, and an empty list for one cell.
IndexPrefixes ==
  (KeyExact(<<12, 12>>) :> <<>>) @@ (SubSeq(KeyExact(<<12, 12>>), 1, 3) :> <<1>>)
    @@ (SubSeq(KeyExact(<<25, 25>>), 1, 4) :> <<2>>)

\* Entries for cells near the query points only.
IndexNear ==
  (KeyNeighbor(<<12, 12>>) :> <<1, 2>>) @@ (KeyExtended(<<25, 25>>) :> <<2>>)

\* Two candidates for one cell: a country and an id that no table knows.
IndexAmbiguous == (KeyExact(<<45, 45>>) :> <<1, MaxCountry + 1>>)

IndexTables == {IndexEmpty, IndexCells, IndexPrefixes, IndexNear, IndexAmbiguous}

(***************************************************************************)
(* Spec: one caller of resolve on a loaded DataLoader, any DataStore       *)
(***************************************************************************)

Init ==
  /\ geohashIndex \in { Some(i) : i \in IndexTables }
  /\ polygons \in { Some(p) : p \in PolygonTables }
  /\ metadata \in { Some(m) : m \in MetadataTables }
  /\ loadPromise = "null"
  /\ _loader = None
  /\ monitor = None
  /\ files = None
  /\ tasks = [t \in {1} |-> IdleTask]

Next ==
  \/ \E t \in DOMAIN tasks, q \in QueryPoints : ResolveStart(t, q[1], q[2])
  \/ \E t \in DOMAIN tasks : ResolveFinish(t)

Spec == Init /\ [][Next]_vars

(***************************************************************************)
(* Properties of resolve, over every DataStore of Spec                     *)
(***************************************************************************)

\* A finished call of resolve that returned a result.
ResolveReturned(t) ==
  /\ tasks[t].pc = "done"
  /\ tasks[t].op = "resolve"
  /\ ~tasks[t].ret[1].threw

ResultOf(t) == tasks[t].ret[1].result[1]

InRange(point) ==
  /\ -90 * CoordDen <= point[1] /\ point[1] <= 90 * CoordDen
  /\ -180 * CoordDen <= point[2] /\ point[2] <= 180 * CoordDen

\* The exterior rings of a polygon record: those of its exteriors list when it
\* is a multi-polygon, its exterior otherwise.
ExteriorRings(rec) ==
  IF rec.multi /\ rec.exteriors # None
  THEN { rec.exteriors[1][k] : k \in 1..Len(rec.exteriors[1]) }
  ELSE { rec.exterior }

\* The point is inside one exterior ring of the record and in none of its holes.
Encloses(point, rec) ==
  \E e \in ExteriorRings(rec) : PointInPolygonWithHoles(point, e, rec.holes)

\* C1: a country that resolve returns has a polygon record with an exterior
\* ring that, with the record's holes, contains the query point.
C1_ReturnedCountryContainsPoint ==
  \A t \in DOMAIN tasks :
    (ResolveReturned(t) /\ ResultOf(t).countryId # None)
      => /\ ResultOf(t).countryId[1] \in DOMAIN polygons[1]
         /\ Encloses(tasks[t].args, polygons[1][ResultOf(t).countryId[1]])

\* resolve returned a multi-polygon country with a hole, found by the
\* exhaustive fallback.
C1_Witness ==
  \E t \in DOMAIN tasks :
    /\ ResolveReturned(t)
    /\ ResultOf(t).countryId # None
    /\ polygons[1][ResultOf(t).countryId[1]].multi
    /\ Len(tasks[t].ret[1].candidates) > 0
    /\ \A k \in 1..Len(tasks[t].ret[1].candidates) :
          tasks[t].ret[1].candidates[k] # ResultOf(t).countryId[1]

\* Every id that the geohash index lists has a metadata record.
IndexIdsHaveMetadata ==
  \A g \in DOMAIN geohashIndex[1] :
    \A k \in 1..Len(geohashIndex[1][g]) :
      geohashIndex[1][g][k] \in DOMAIN metadata[1]

\* Some country with a polygon record and a metadata record encloses the point.
SomeCountryEncloses(point) ==
  \E c \in DOMAIN polygons[1] \cap DOMAIN metadata[1] :
    Encloses(point, polygons[1][c])

\* C2: whatever the geohash index holds, when a country with a polygon and a
\* metadata record encloses the in-range query point and every indexed id has
\* metadata, resolve returns a country.
C2_IndexGapsNeverCauseNoMatch ==
  \A t \in DOMAIN tasks :
    (/\ tasks[t].pc = "done"
     /\ tasks[t].op = "resolve"
     /\ InRange(tasks[t].args)
     /\ IndexIdsHaveMetadata
     /\ SomeCountryEncloses(tasks[t].args))
      => /\ ~tasks[t].ret[1].threw
         /\ ResultOf(t).countryId # None

\* The index named only countries that do not enclose the point, and resolve
\* returned one that does.
C2_Witness ==
  \E t \in DOMAIN tasks :
    /\ ResolveReturned(t)
    /\ IndexIdsHaveMetadata
    /\ SomeCountryEncloses(tasks[t].args)
    /\ tasks[t].ret[1].lookups # <<>>
    /\ tasks[t].ret[1].lookups[1] \in DOMAIN geohashIndex[1]
    /\ Len(tasks[t].ret[1].candidates) > 0
    /\ ResultOf(t).countryId # None
    /\ \A k \in 1..Len(tasks[t].ret[1].candidates) :
          tasks[t].ret[1].candidates[k] # ResultOf(t).countryId[1]

\* C3: a result of resolve either has no country, every metadata field null
\* and confidence 0, or has a country and a confidence in [0.5, 1.0]; and when
\* no polygon record encloses an in-range point, resolve does not throw and
\* returns the former.
C3_NoMatchIsZeroConfidence ==
  \A t \in DOMAIN tasks :
    /\ ResolveReturned(t) =>
         \/ ResultOf(t) = [countryId |-> <<>>, countryName |-> <<>>, iso2 |-> <<>>,
                           iso3 |-> <<>>, continent |-> <<>>, timezone |-> <<>>,
                           confidence |-> 0]
         \/ /\ ResultOf(t).countryId # <<>>
            /\ ConfDen \div 2 <= ResultOf(t).confidence
            /\ ResultOf(t).confidence <= ConfDen
    /\ (/\ tasks[t].pc = "done"
        /\ tasks[t].op = "resolve"
        /\ InRange(tasks[t].args)
        /\ \A c \in DOMAIN polygons[1] : ~Encloses(tasks[t].args, polygons[1][c]))
         => /\ ~tasks[t].ret[1].threw
            /\ ResultOf(t).countryId = <<>>
            /\ ResultOf(t).confidence = 0

\* resolve scanned candidates that have polygon records, found the point in
\* none and returned the no-match result.
C3_Witness ==
  \E t \in DOMAIN tasks :
    /\ ResolveReturned(t)
    /\ ResultOf(t).countryId = <<>>
    /\ ResultOf(t).confidence = 0
    /\ \E k \in 1..Len(tasks[t].ret[1].candidates) :
          tasks[t].ret[1].candidates[k] \in DOMAIN polygons[1]

\* The candidates (by position) whose polygon record encloses the point.
MatchingCandidates(t) ==
  { k \in 1..Len(tasks[t].ret[1].candidates) :
      /\ tasks[t].ret[1].candidates[k] \in DOMAIN polygons[1]
      /\ Encloses(tasks[t].args, polygons[1][tasks[t].ret[1].candidates[k]]) }

\* The confidence of the candidate at position k: that of the first of its
\* exterior rings that contains the point.
CandidateConfidence(t, k) ==
  LET rec == polygons[1][tasks[t].ret[1].candidates[k]]
      exts == ExteriorsOf(rec)
      first == CHOOSE e \in 1..Len(exts) :
                 /\ PointInPolygonWithHoles(tasks[t].args, exts[e], rec.holes)
                 /\ \A d \in 1..(e - 1) :
                      ~PointInPolygonWithHoles(tasks[t].args, exts[d], rec.holes)
  IN  CalculateConfidence(tasks[t].args, exts[first], HolesOf(rec.holes),
                          Len(tasks[t].ret[1].candidates))

\* C5: when candidates match, resolve returns the first candidate among those
\* of highest confidence, with that confidence and that country's metadata.
C5_HighestConfidenceFirstInOrderWins ==
  \A t \in DOMAIN tasks :
    (ResolveReturned(t) /\ MatchingCandidates(t) # {})
      => \E k \in MatchingCandidates(t) :
           /\ \A j \in MatchingCandidates(t) :
                \/ CandidateConfidence(t, j) < CandidateConfidence(t, k)
                \/ CandidateConfidence(t, j) = CandidateConfidence(t, k) /\ k <= j
           /\ ResultOf(t).countryId = <<tasks[t].ret[1].candidates[k]>>
           /\ ResultOf(t).confidence = CandidateConfidence(t, k)
           /\ ResultOf(t).countryName = <<metadata[1][tasks[t].ret[1].candidates[k]].name>>
           /\ ResultOf(t).iso2 = <<metadata[1][tasks[t].ret[1].candidates[k]].iso2>>
           /\ ResultOf(t).iso3 = <<metadata[1][tasks[t].ret[1].candidates[k]].iso3>>
           /\ ResultOf(t).continent = <<metadata[1][tasks[t].ret[1].candidates[k]].continent>>
           /\ ResultOf(t).timezone = <<metadata[1][tasks[t].ret[1].candidates[k]].timezone>>

\* Two candidates matched with different confidences and the second in
\* candidate order, the more confident one, was returned.
C5_Witness ==
  \E t \in DOMAIN tasks :
    /\ ResolveReturned(t)
    /\ \E j, k \in MatchingCandidates(t) :
          /\ j < k
          /\ CandidateConfidence(t, j) < CandidateConfidence(t, k)
          /\ ResultOf(t).countryId = <<tasks[t].ret[1].candidates[k]>>

(***************************************************************************)
(* SpecPip: calls of pointInPolygon and pointInPolygonWithHoles on rings   *)
(* and points of a small grid                                              *)
(***************************************************************************)

GridMax == 3

GridPoints == { <<a, b>> : a \in -1..(GridMax + 1), b \in -1..(GridMax + 1) }

\* The axis-aligned rectangle with corners (a, b) and (c, d).
Rect(a, b, c, d) == << <<a, b>>, <<a, d>>, <<c, d>>, <<c, b>> >>

\* The ring started n vertices later.
Rotate(ring, n) == SubSeq(ring \o ring, n + 1, n + Len(ring))

\* The ring in the opposite orientation.
RECURSIVE Reverse(_)
Reverse(ring) ==
  IF Len(ring) = 0 THEN <<>> ELSE Append(Reverse(Tail(ring)), Head(ring))

\* Every rectangle of the grid, from every starting vertex, in both
\* orientations.
RectRings ==
  UNION { { Rotate(Rect(q[1], q[2], q[3], q[4]), n),
            Reverse(Rotate(Rect(q[1], q[2], q[3], q[4]), n)) } :
            q \in { x \in (0..GridMax) \X (0..GridMax) \X (0..GridMax) \X (0..GridMax) :
                      x[1] < x[3] /\ x[2] < x[4] },
            n \in 0..3 }

\* Rings of fewer than 3 points.
ShortRings ==
  { <<>>, << <<1, 1>> >>, << <<0, 0>>, <<GridMax, GridMax>> >>,
    << <<0, 0>>, <<0, GridMax>> >> }

\* The exteriors and the lists of holes that pointInPolygonWithHoles is
\* called with.
ExteriorPool ==
  { Rect(0, 0, GridMax, GridMax), Reverse(Rect(1, 0, GridMax, GridMax - 1)),
    << <<0, 0>>, <<0, GridMax>>, <<GridMax, 0>> >>,
    << <<0, 0>>, <<GridMax, GridMax>> >> }

HolePool ==
  { Rect(0, 0, 2, 2), Rect(1, 1, GridMax, GridMax), << <<0, 0>>, <<2, 2>> >> }

HoleLists ==
  { <<>> } \cup { <<h>> : h \in HolePool }
           \cup { <<h1, h2>> : h1 \in HolePool, h2 \in HolePool }

\* A synchronous call that has been made and has not returned.
CalledTask(op, args) ==
  [pc |-> "called", op |-> op, args |-> args, awaiting |-> "none", ret |-> None]

PipInit ==
  /\ geohashIndex = None
  /\ polygons = None
  /\ metadata = None
  /\ loadPromise = "null"
  /\ _loader = None
  /\ monitor = None
  /\ files = None
  /\ tasks \in
       { [t \in {1} |-> CalledTask("pointInPolygon", <<p, r>>)] :
           p \in GridPoints, r \in RectRings \cup ShortRings }
       \cup
       { [t \in {1} |-> CalledTask("pointInPolygonWithHoles", <<p, e, hs>>)] :
           p \in GridPoints, e \in ExteriorPool, hs \in HoleLists }

PointInPolygonReturn(t) ==
  /\ tasks[t].pc = "called"
  /\ tasks[t].op = "pointInPolygon"
  /\ tasks' = [tasks EXCEPT ![t].pc = "done",
                 ![t].ret = Some(Returned(PointInPolygon(tasks[t].args[1],
                                                         tasks[t].args[2]),
                                          <<>>, <<>>))]
  /\ UNCHANGED <<_loader, monitor, geohashIndex, polygons, metadata, loadPromise, files>>

PointInPolygonWithHolesReturn(t) ==
  /\ tasks[t].pc = "called"
  /\ tasks[t].op = "pointInPolygonWithHoles"
  /\ tasks' = [tasks EXCEPT ![t].pc = "done",
                 ![t].ret = Some(Returned(PointInPolygonWithHoles(tasks[t].args[1],
                                                                  tasks[t].args[2],
                                                                  tasks[t].args[3]),
                                          <<>>, <<>>))]
  /\ UNCHANGED <<_loader, monitor, geohashIndex, polygons, metadata, loadPromise, files>>

PipNext ==
  \/ \E t \in DOMAIN tasks : PointInPolygonReturn(t)
  \/ \E t \in DOMAIN tasks : PointInPolygonWithHolesReturn(t)

SpecPip == PipInit /\ [][PipNext]_vars

\* A finished call of op.
Finished(t, op) == tasks[t].pc = "done" /\ tasks[t].op = op

\* What a finished call returned.
ReturnOf(t) == tasks[t].ret[1].result[1]

RingLats(ring) == { ring[k][1] : k \in 1..Len(ring) }

RingLons(ring) == { ring[k][2] : k \in 1..Len(ring) }

\* Four distinct points, two latitudes and two longitudes, consecutive points
\* (the last and the first included) on a common side.
IsRectangle(ring) ==
  /\ Len(ring) = 4
  /\ Cardinality({ ring[k] : k \in 1..4 }) = 4
  /\ Cardinality(RingLats(ring)) = 2
  /\ Cardinality(RingLons(ring)) = 2
  /\ \A k \in 1..4 :
       (ring[k][1] = ring[(k % 4) + 1][1]) # (ring[k][2] = ring[(k % 4) + 1][2])

StrictlyInside(point, ring) ==
  /\ \E a \in RingLats(ring) : a < point[1]
  /\ \E a \in RingLats(ring) : point[1] < a
  /\ \E b \in RingLons(ring) : b < point[2]
  /\ \E b \in RingLons(ring) : point[2] < b

StrictlyOutside(point, ring) ==
  \/ \A a \in RingLats(ring) : point[1] < a
  \/ \A a \in RingLats(ring) : a < point[1]
  \/ \A b \in RingLons(ring) : point[2] < b
  \/ \A b \in RingLons(ring) : b < point[2]

\* C8: pointInPolygon returns false for a ring of fewer than 3 points; for an
\* axis-aligned rectangle, from any starting vertex and in either orientation,
\* it returns true for a point strictly inside and false for a point strictly
\* outside.
C8_PointInPolygonOnRectangles ==
  \A t \in DOMAIN tasks :
    Finished(t, "pointInPolygon") =>
      LET point == tasks[t].args[1]
          ring == tasks[t].args[2]
      IN  /\ Len(ring) < 3 => ReturnOf(t) = FALSE
          /\ (IsRectangle(ring) /\ StrictlyInside(point, ring)) => ReturnOf(t) = TRUE
          /\ (IsRectangle(ring) /\ StrictlyOutside(point, ring)) => ReturnOf(t) = FALSE

\* pointInPolygon returned true for a point strictly inside a rectangle that
\* starts at its last corner and runs in the opposite orientation.
C8_Witness ==
  \E t \in DOMAIN tasks :
    /\ Finished(t, "pointInPolygon")
    /\ tasks[t].args[2] = Reverse(Rotate(Rect(0, 0, GridMax, 2), 3))
    /\ StrictlyInside(tasks[t].args[1], tasks[t].args[2])
    /\ ReturnOf(t) = TRUE

\* C9: pointInPolygonWithHoles is true exactly when pointInPolygon is true of
\* the exterior and false of every hole; with no holes it equals pointInPolygon
\* of the exterior.
C9_WithHolesIsExteriorMinusHoles ==
  \A t \in DOMAIN tasks :
    Finished(t, "pointInPolygonWithHoles") =>
      LET point == tasks[t].args[1]
          exterior == tasks[t].args[2]
          holes == tasks[t].args[3]
      IN  /\ ReturnOf(t) = TRUE
               <=> /\ PointInPolygon(point, exterior)
                   /\ \A k \in 1..Len(holes) : ~PointInPolygon(point, holes[k])
          /\ Len(holes) = 0 => ReturnOf(t) = PointInPolygon(point, exterior)

\* pointInPolygonWithHoles returned false for a point of the exterior that is
\* in the second hole and not in the first.
C9_Witness ==
  \E t \in DOMAIN tasks :
    /\ Finished(t, "pointInPolygonWithHoles")
    /\ Len(tasks[t].args[3]) = 2
    /\ PointInPolygon(tasks[t].args[1], tasks[t].args[2])
    /\ ~PointInPolygon(tasks[t].args[1], tasks[t].args[3][1])
    /\ PointInPolygon(tasks[t].args[1], tasks[t].args[3][2])
    /\ ReturnOf(t) = FALSE

(***************************************************************************)
(* SpecCodec: calls of encode on coordinates in and around the valid       *)
(* range, and calls of resolve at and beyond the boundaries                *)
(***************************************************************************)

\* Latitudes and longitudes in 1/GeoDen degree: the boundaries, the nearest
\* values beyond them, and values inside.
EncodeLats ==
  { -90 * GeoDen - 1, -90 * GeoDen, GeoOf(-3386), 0, GeoOf(4071),
    90 * GeoDen, 90 * GeoDen + 1 }

EncodeLons ==
  { -180 * GeoDen - 1, -180 * GeoDen, GeoOf(-7401), 0, GeoOf(15120),
    180 * GeoDen, 180 * GeoDen + 1 }

Precisions == 1..GEOHASH_PRECISION

\* Query points of resolve in 1/CoordDen degree: the corners of the valid
\* range and the points next to them beyond it.
BoundaryQueries ==
  { <<lat, lon>> :
      lat \in { -90 * CoordDen - 1, -90 * CoordDen, 90 * CoordDen, 90 * CoordDen + 1 },
      lon \in { -180 * CoordDen - 1, -180 * CoordDen, 180 * CoordDen,
                180 * CoordDen + 1 } }

\* A store in which every country has the plain square and a metadata record.
PlainPolygons ==
  [c \in CountryIds |->
     [multi |-> FALSE, exterior |-> SqB, exteriors |-> None, holes |-> <<>>]]

FullMetadata == [c \in CountryIds |-> MetaRecord(c)]

\* Geohashes that decode accepts: every single character, cells at the
\* corners and edges of the world, the cells of two query points.
ValidGeohashes ==
  { <<BASE32[k]>> : k \in 1..Len(BASE32) }
    \cup { <<"z", "z">>, <<"0", "0", "0">>, <<"b", "p", "b", "p", "b", "p">>,
           <<"z", "z", "z", "z", "z", "z">>, <<"s", "0", "0", "0", "0", "0">>,
           KeyExact(<<12, 12>>), KeyExact(<<45, 45>>) }

\* Geohashes that decode rejects: the empty string, characters outside BASE32.
InvalidGeohashes == { <<>>, <<"a">>, <<"s", "i", "0">> }

CodecInit ==
  /\ geohashIndex \in { Some(i) : i \in IndexTables }
  /\ polygons = Some(PlainPolygons)
  /\ metadata = Some(FullMetadata)
  /\ loadPromise = "null"
  /\ _loader = None
  /\ monitor = None
  /\ files = None
  /\ tasks \in
       { [t \in {1} |-> IdleTask] }
       \cup { [t \in {1} |-> CalledTask("encode", <<lat, lon, precision>>)] :
                lat \in EncodeLats, lon \in EncodeLons, precision \in Precisions }
       \cup { [t \in {1} |-> CalledTask(op, <<g>>)] :
                op \in {"decode", "getNeighbors"},
                g \in ValidGeohashes \cup InvalidGeohashes }

\* encode(lat, lon, precision) from its call to its return or throw.
EncodeReturn(t) ==
  /\ tasks[t].pc = "called"
  /\ tasks[t].op = "encode"
  /\ tasks' = [tasks EXCEPT ![t].pc = "done",
                 ![t].ret =
                   Some(IF EncodeThrows(tasks[t].args[1], tasks[t].args[2])
                        THEN Thrown
                        ELSE Returned(Encode(tasks[t].args[1], tasks[t].args[2],
                                             tasks[t].args[3]),
                                      <<>>, <<>>))]
  /\ UNCHANGED <<_loader, monitor, geohashIndex, polygons, metadata, loadPromise, files>>

\* decode(geohash) from its call to its return or throw.
DecodeReturn(t) ==
  /\ tasks[t].pc = "called"
  /\ tasks[t].op = "decode"
  /\ tasks' = [tasks EXCEPT ![t].pc = "done",
                 ![t].ret = Some(IF DecodeThrows(tasks[t].args[1]) THEN Thrown
                                 ELSE Returned(Decode(tasks[t].args[1]), <<>>, <<>>))]
  /\ UNCHANGED <<_loader, monitor, geohashIndex, polygons, metadata, loadPromise, files>>

\* getNeighbors(geohash) from its call to its return, or to the throw of its
\* decode.
GetNeighborsReturn(t) ==
  /\ tasks[t].pc = "called"
  /\ tasks[t].op = "getNeighbors"
  /\ tasks' = [tasks EXCEPT ![t].pc = "done",
                 ![t].ret = Some(IF DecodeThrows(tasks[t].args[1]) THEN Thrown
                                 ELSE Returned(GetNeighbors(tasks[t].args[1]),
                                               <<>>, <<>>))]
  /\ UNCHANGED <<_loader, monitor, geohashIndex, polygons, metadata, loadPromise, files>>

CodecNext ==
  \/ \E t \in DOMAIN tasks : EncodeReturn(t)
  \/ \E t \in DOMAIN tasks : DecodeReturn(t)
  \/ \E t \in DOMAIN tasks : GetNeighborsReturn(t)
  \/ \E t \in DOMAIN tasks, q \in BoundaryQueries : ResolveStart(t, q[1], q[2])
  \/ \E t \in DOMAIN tasks : ResolveFinish(t)

SpecCodec == CodecInit /\ [][CodecNext]_vars

\* C4: encode and resolve throw when lat < -90, lat > 90, lon < -180 or
\* lon > 180, resolve then returning no result and looking up no candidates;
\* on every other input, the boundary values included, they do not throw.
C4_OutOfRangeThrows ==
  \A t \in DOMAIN tasks :
    /\ Finished(t, "encode") =>
         IF \/ tasks[t].args[1] < -90 * GeoDen \/ tasks[t].args[1] > 90 * GeoDen
            \/ tasks[t].args[2] < -180 * GeoDen \/ tasks[t].args[2] > 180 * GeoDen
         THEN tasks[t].ret[1].threw /\ tasks[t].ret[1].result = <<>>
         ELSE ~tasks[t].ret[1].threw /\ tasks[t].ret[1].result # <<>>
    /\ Finished(t, "resolve") =>
         IF \/ tasks[t].args[1] < -90 * CoordDen \/ tasks[t].args[1] > 90 * CoordDen
            \/ tasks[t].args[2] < -180 * CoordDen \/ tasks[t].args[2] > 180 * CoordDen
         THEN /\ tasks[t].ret[1].threw
              /\ tasks[t].ret[1].result = <<>>
              /\ tasks[t].ret[1].lookups = <<>>
         ELSE ~tasks[t].ret[1].threw /\ tasks[t].ret[1].result # <<>>

\* resolve threw on a longitude just beyond -180 with a boundary latitude,
\* without a result and without a lookup.
C4_Witness ==
  \E t \in DOMAIN tasks :
    /\ Finished(t, "resolve")
    /\ tasks[t].args = <<90 * CoordDen, -180 * CoordDen - 1>>
    /\ tasks[t].ret[1].threw
    /\ tasks[t].ret[1].result = <<>>
    /\ tasks[t].ret[1].lookups = <<>>

\* Bisection bit m (0 first) of v in the range [lo, hi]: 1 iff v is not below
\* the midpoint of the range that the earlier bits have narrowed.
RECURSIVE BisectionBit(_, _, _, _)
BisectionBit(v, lo, hi, m) ==
  LET mid == (lo + hi) \div 2
  IN  IF m = 0 THEN (IF v >= mid THEN 1 ELSE 0)
      ELSE IF v >= mid THEN BisectionBit(v, mid, hi, m - 1)
      ELSE BisectionBit(v, lo, mid, m - 1)

\* Output bit k of the standard geohash: longitude when k is even, latitude
\* when k is odd.
StandardBit(lat, lon, k) ==
  IF k % 2 = 0 THEN BisectionBit(lon, -180 * GeoDen, 180 * GeoDen, k \div 2)
  ELSE BisectionBit(lat, -90 * GeoDen, 90 * GeoDen, k \div 2)

\* The character index of group c (0 first): its 5 bits, most significant first.
StandardIndex(lat, lon, c) ==
  16 * StandardBit(lat, lon, 5 * c) + 8 * StandardBit(lat, lon, 5 * c + 1)
    + 4 * StandardBit(lat, lon, 5 * c + 2) + 2 * StandardBit(lat, lon, 5 * c + 3)
    + StandardBit(lat, lon, 5 * c + 4)

StandardGeohash(lat, lon, p) ==
  [c \in 1..p |-> BASE32[StandardIndex(lat, lon, c - 1) + 1]]

\* C10: encode(lat, lon, p) returns the standard geohash of length p.
C10_EncodeIsStandardGeohash ==
  \A t \in DOMAIN tasks :
    (Finished(t, "encode") /\ ~tasks[t].ret[1].threw)
      => ReturnOf(t) = StandardGeohash(tasks[t].args[1], tasks[t].args[2],
                                       tasks[t].args[3])

\* C11: decode of the geohash that encode returned gives a latRange and a
\* lonRange that contain the encoded latitude and longitude, and a point
\* estimate inside those ranges.
C11_DecodeOfEncodeContainsPoint ==
  \A t \in DOMAIN tasks :
    (Finished(t, "encode") /\ ~tasks[t].ret[1].threw)
      => LET d == Decode(ReturnOf(t))
         IN  /\ d.latRange[1] <= tasks[t].args[1] /\ tasks[t].args[1] <= d.latRange[2]
             /\ d.lonRange[1] <= tasks[t].args[2] /\ tasks[t].args[2] <= d.lonRange[2]
             /\ d.latRange[1] <= d.lat /\ d.lat <= d.latRange[2]
             /\ d.lonRange[1] <= d.lon /\ d.lon <= d.lonRange[2]

\* C12: getNeighbors of a valid geohash returns 8 strings of the length of the
\* geohash that are pairwise distinct.
C12_EightDistinctNeighbors ==
  \A t \in DOMAIN tasks :
    (Finished(t, "getNeighbors") /\ ~DecodeThrows(tasks[t].args[1]))
      => /\ ~tasks[t].ret[1].threw
         /\ Len(ReturnOf(t)) = 8
         /\ \A k \in 1..Len(ReturnOf(t)) : Len(ReturnOf(t)[k]) = Len(tasks[t].args[1])
         /\ \A j, k \in 1..Len(ReturnOf(t)) : j # k => ReturnOf(t)[j] # ReturnOf(t)[k]

(***************************************************************************)
(* utils/polygon and resolver/reverse: getPolygonCentroid,                 *)
(* findCountryByNameOrIso, resolveByCountry.  A string is the sequence of  *)
(* its characters; a quotient is the exact fraction <<n, d>> in lowest     *)
(* terms, d > 0.                                                           *)
(***************************************************************************)

LowerLetters ==
  << "a", "b", "c", "d", "e", "f", "g", "h", "i", "j", "k", "l", "m", "n",
     "o", "p", "q", "r", "s", "t", "u", "v", "w", "x", "y", "z" >>

UpperLetters ==
  << "A", "B", "C", "D", "E", "F", "G", "H", "I", "J", "K", "L", "M", "N",
     "O", "P", "Q", "R", "S", "T", "U", "V", "W", "X", "Y", "Z" >>

UpperChar(c) ==
  IF \E k \in 1..Len(LowerLetters) : LowerLetters[k] = c
  THEN UpperLetters[CHOOSE k \in 1..Len(LowerLetters) : LowerLetters[k] = c]
  ELSE c

LowerChar(c) ==
  IF \E k \in 1..Len(UpperLetters) : UpperLetters[k] = c
  THEN LowerLetters[CHOOSE k \in 1..Len(UpperLetters) : UpperLetters[k] = c]
  ELSE c

ToUpperCase(str) ==
  SubSeq([k \in 1..Len(str) |-> UpperChar(str[k])], 1, Len(str))

ToLowerCase(str) ==
  SubSeq([k \in 1..Len(str) |-> LowerChar(str[k])], 1, Len(str))

\* str.trim(), the blank being the only whitespace of the model's strings.
Trim(str) ==
  IF \A k \in 1..Len(str) : str[k] = " " THEN <<>>
  ELSE SubSeq(str,
              CHOOSE a \in 1..Len(str) :
                str[a] # " " /\ \A k \in 1..(a - 1) : str[k] = " ",
              CHOOSE b \in 1..Len(str) :
                str[b] # " " /\ \A k \in (b + 1)..Len(str) : str[k] = " ")

\* str.replace(/from/g, to) for a single character.
ReplaceAll(str, from, to) ==
  SubSeq([k \in 1..Len(str) |-> IF str[k] = from THEN to ELSE str[k]], 1, Len(str))

\* Variant: normalizeCountryName without its replacement of '-'.
NormalizeCountryNameKeepsHyphen(name) ==
  ReplaceAll(ToLowerCase(Trim(name)), "_", " ")

NormalizeCountryName(name) ==
  ReplaceAll(ReplaceAll(ToLowerCase(Trim(name)), "_", " "), "-", " ")

\* str.includes(part)
Includes(str, part) ==
  \E i \in 0..(Len(str) - Len(part)) : SubSeq(str, i + 1, i + Len(part)) = part

\* Variant: the exact checks as three passes over the records from position k
\* on, by ISO2, then by ISO3, then by normalized name.
ExactLoopTiered(ids, k, normalizedInput, normalizedName, meta) ==
  LET iso2s == { j \in k..Len(ids) : ToUpperCase(meta[ids[j]].iso2) = normalizedInput }
      iso3s == { j \in k..Len(ids) : ToUpperCase(meta[ids[j]].iso3) = normalizedInput }
      names == { j \in k..Len(ids) :
                   NormalizeCountryName(meta[ids[j]].name) = normalizedName }
      least(js) == CHOOSE j \in js : \A i \in js : j <= i
  IN  IF iso2s # {} THEN Some(ids[least(iso2s)])
      ELSE IF iso3s # {} THEN Some(ids[least(iso3s)])
      ELSE IF names # {} THEN Some(ids[least(names)])
      ELSE None

\* The first loop of findCountryByNameOrIso from position k of the keys on:
\* the first record whose ISO2, ISO3 or normalized name equals the input.
RECURSIVE ExactLoop(_, _, _, _, _)
ExactLoop(ids, k, normalizedInput, normalizedName, meta) ==
  IF k > Len(ids) THEN None
  ELSE IF \/ ToUpperCase(meta[ids[k]].iso2) = normalizedInput
          \/ ToUpperCase(meta[ids[k]].iso3) = normalizedInput
          \/ NormalizeCountryName(meta[ids[k]].name) = normalizedName
  THEN Some(ids[k])
  ELSE ExactLoop(ids, k + 1, normalizedInput, normalizedName, meta)

\* Variant: the second loop falls back on the first record when no name
\* contains the input or is contained in it.
RECURSIVE PartialLoopDefaultsToFirst(_, _, _, _)
PartialLoopDefaultsToFirst(ids, k, normalizedName, meta) ==
  IF k > Len(ids) THEN (IF Len(ids) > 0 THEN Some(ids[1]) ELSE None)
  ELSE IF \/ Includes(normalizedName, NormalizeCountryName(meta[ids[k]].name))
          \/ Includes(NormalizeCountryName(meta[ids[k]].name), normalizedName)
  THEN Some(ids[k])
  ELSE PartialLoopDefaultsToFirst(ids, k + 1, normalizedName, meta)

\* Variant: the second loop accepts a record only when the input contains
\* its name.
RECURSIVE PartialLoopInputContainsName(_, _, _, _)
PartialLoopInputContainsName(ids, k, normalizedName, meta) ==
  IF k > Len(ids) THEN None
  ELSE IF Includes(normalizedName, NormalizeCountryName(meta[ids[k]].name))
  THEN Some(ids[k])
  ELSE PartialLoopInputContainsName(ids, k + 1, normalizedName, meta)

\* The second loop: the first record whose normalized name contains the
\* normalized input or is contained in it.
RECURSIVE PartialLoop(_, _, _, _)
PartialLoop(ids, k, normalizedName, meta) ==
  IF k > Len(ids) THEN None
  ELSE IF \/ Includes(normalizedName, NormalizeCountryName(meta[ids[k]].name))
          \/ Includes(NormalizeCountryName(meta[ids[k]].name), normalizedName)
  THEN Some(ids[k])
  ELSE PartialLoop(ids, k + 1, normalizedName, meta)

\* Variant: the substring loop runs before the exact loop.
FindCountryPartialFirst(countryInput, meta) ==
  Bind(<<ToUpperCase(Trim(countryInput)), NormalizeCountryName(countryInput),
         AllCountryIds(meta)>>,
       LAMBDA n :
         Bind(PartialLoop(n[3], 1, n[2], meta), LAMBDA partial :
           IF partial # None THEN partial
           ELSE ExactLoop(n[3], 1, n[1], n[2], meta)))

\* Some(countryId), or None when no record matches.
FindCountryByNameOrIso(countryInput, meta) ==
  Bind(<<ToUpperCase(Trim(countryInput)), NormalizeCountryName(countryInput),
         AllCountryIds(meta)>>,
       LAMBDA n :
         Bind(ExactLoop(n[3], 1, n[1], n[2], meta), LAMBDA exact :
           IF exact # None THEN exact ELSE PartialLoop(n[3], 1, n[2], meta)))

RECURSIVE GCD(_, _)
GCD(a, b) == IF b = 0 THEN a ELSE GCD(b, a % b)

\* n / d in lowest terms.
Frac(n, d) ==
  Bind(GCD(Abs(n), d), LAMBDA g : <<n \div g, d \div g>>)

\* The sum of coordinate c (1 = lat, 2 = lon) of the points from position k on.
RECURSIVE SumCoord(_, _, _)
SumCoord(polygon, c, k) ==
  IF k > Len(polygon) THEN 0 ELSE polygon[k][c] + SumCoord(polygon, c, k + 1)

GetPolygonCentroid(polygon) ==
  IF Len(polygon) = 0 THEN <<Frac(0, 1), Frac(0, 1)>>
  ELSE <<Frac(SumCoord(polygon, 1, 1), Len(polygon)),
         Frac(SumCoord(polygon, 2, 1), Len(polygon))>>

\* The centroids of the non-empty exteriors, in order.
RECURSIVE AllCentroids(_, _)
AllCentroids(exteriors, k) ==
  IF k > Len(exteriors) THEN <<>>
  ELSE IF Len(exteriors[k]) > 0
  THEN <<GetPolygonCentroid(exteriors[k])>> \o AllCentroids(exteriors, k + 1)
  ELSE AllCentroids(exteriors, k + 1)

\* The sum of coordinate c of the centroids from position k on.
RECURSIVE SumCentroids(_, _, _)
SumCentroids(centroids, c, k) ==
  IF k > Len(centroids) THEN Frac(0, 1)
  ELSE Bind(SumCentroids(centroids, c, k + 1), LAMBDA rest :
         Frac(centroids[k][c][1] * rest[2] + rest[1] * centroids[k][c][2],
              centroids[k][c][2] * rest[2]))

\* The average of coordinate c of the centroids.
CentroidAverage(centroids, c) ==
  Bind(SumCentroids(centroids, c, 1), LAMBDA sum :
    Frac(sum[1], sum[2] * Len(centroids)))

\* The body of resolveByCountry after its await of loader.load().
ResolveByCountryRun(countryInput, polys, meta) ==
  Bind(FindCountryByNameOrIso(countryInput, meta), LAMBDA countryMatch :
    IF countryMatch = None THEN Thrown
    ELSE IF countryMatch[1] \notin DOMAIN polys THEN Thrown
    ELSE Bind(ExteriorsOf(polys[countryMatch[1]]), LAMBDA exteriors :
           IF Len(exteriors) = 0 THEN Thrown
           ELSE Bind(AllCentroids(exteriors, 1), LAMBDA allCentroids :
                  IF Len(allCentroids) = 0 THEN Thrown
                  ELSE Returned(
                         [latitude |-> CentroidAverage(allCentroids, 1),
                          longitude |-> CentroidAverage(allCentroids, 2),
                          countryName |-> meta[countryMatch[1]].name,
                          iso2 |-> meta[countryMatch[1]].iso2,
                          iso3 |-> meta[countryMatch[1]].iso3,
                          continent |-> meta[countryMatch[1]].continent,
                          timezone |-> meta[countryMatch[1]].timezone,
                          confidence |-> ConfDen],
                         <<>>, <<>>))))

\* resolveByCountry(countryInput, loader) up to its await of loader.load().
ResolveByCountryStart(t, countryInput) ==
  /\ tasks[t].pc \in {"idle", "done"}
  /\ loadPromise' = LoadPromiseAfterLoad(geohashIndex, polygons, metadata, loadPromise)
  /\ tasks' = [tasks EXCEPT ![t] =
                 [pc |-> "awaitLoad", op |-> "resolveByCountry",
                  args |-> <<countryInput>>,
                  awaiting |-> LoadReturns(geohashIndex, polygons, metadata),
                  ret |-> None]]
  /\ UNCHANGED <<_loader, monitor, geohashIndex, polygons, metadata, files>>

\* resolveByCountry from findCountryByNameOrIso to its return or throw.
ResolveByCountryFinish(t) ==
  /\ tasks[t].pc = "awaitLoad"
  /\ tasks[t].op = "resolveByCountry"
  /\ AwaitDone(t)
  /\ Loaded
  /\ tasks' = [tasks EXCEPT ![t].pc = "done",
                 ![t].ret = Some(ResolveByCountryRun(tasks[t].args[1], polygons[1],
                                                     metadata[1]))]
  /\ UNCHANGED <<_loader, monitor, geohashIndex, polygons, metadata, loadPromise, files>>

\* loader.getCandidateCountries(geohash): the geohashIndex getter throws while
\* the index is null.
GetCandidateCountriesCall(t, geohash) ==
  /\ tasks[t].pc \in {"idle", "done"}
  /\ tasks' = [tasks EXCEPT ![t] =
                 [pc |-> "done", op |-> "getCandidateCountries",
                  args |-> <<geohash>>, awaiting |-> "none",
                  ret |-> Some(IF geohashIndex = None THEN Thrown
                               ELSE Returned(GetCandidateCountries(geohashIndex[1],
                                                                   geohash),
                                             <<>>, <<>>))]]
  /\ UNCHANGED <<_loader, monitor, geohashIndex, polygons, metadata, loadPromise, files>>

(***************************************************************************)
(* SpecConc: concurrent callers of resolve, resolveByCountry and           *)
(* getCandidateCountries on one DataLoader, loaded through its setters or  *)
(* loading from its data files                                             *)
(***************************************************************************)

MaxTask == 2

\* Two DataStores that answer the queries below differently.  The lists of a
\* geohash index file are arrays, which load() stores as they are.
StoreA ==
  [geohashIndex |-> IndexCells, polygons |-> PlainPolygons, metadata |-> FullMetadata]

StoreB ==
  [geohashIndex |-> IndexPrefixes,
   polygons |-> [c \in CountryIds |->
                   [multi |-> TRUE, exterior |-> SqB,
                    exteriors |-> Some(<<Tri, <<>>, SqA>>), holes |-> <<HoleA>>]],
   metadata |-> [c \in CountryIds \ {1} |-> MetaRecord(c)]]

ConcQueries == { <<12, 12>>, <<45, 45>> }

ConcInputs == { <<" ", "n", "g">>, <<"C", "h", "a", "d">> }

ConcHashes == { KeyExact(<<12, 12>>) }

\* The loader has its three tables from its setters, or only its geohash
\* index, or nothing; its data files hold either store or are missing.
ConcInit ==
  /\ \E s \in { [gi |-> Some(StoreA.geohashIndex), po |-> Some(StoreA.polygons),
                 me |-> Some(StoreA.metadata)],
                [gi |-> Some(StoreA.geohashIndex), po |-> None, me |-> None],
                [gi |-> None, po |-> None, me |-> None] } :
       /\ geohashIndex = s.gi
       /\ polygons = s.po
       /\ metadata = s.me
  /\ loadPromise = "null"
  /\ _loader = None
  /\ monitor = None
  /\ files \in { None, Some(StoreA), Some(StoreB) }
  /\ tasks = [t \in 1..MaxTask |-> IdleTask]

ConcNext ==
  \/ \E t \in DOMAIN tasks, q \in ConcQueries : ResolveStart(t, q[1], q[2])
  \/ \E t \in DOMAIN tasks : ResolveFinish(t)
  \/ \E t \in DOMAIN tasks, c \in ConcInputs : ResolveByCountryStart(t, c)
  \/ \E t \in DOMAIN tasks : ResolveByCountryFinish(t)
  \/ \E t \in DOMAIN tasks, g \in ConcHashes : GetCandidateCountriesCall(t, g)
  \/ LoadComplete
  \/ LoadFail

SpecConc == ConcInit /\ [][ConcNext]_vars

\* C6: two finished calls of resolve with equal arguments have returned the
\* same result, or have both thrown, whatever calls ran before or between them.
C6_ResolveIsDeterministic ==
  \A t1 \in DOMAIN tasks, t2 \in DOMAIN tasks :
    (/\ Finished(t1, "resolve")
     /\ Finished(t2, "resolve")
     /\ tasks[t1].args = tasks[t2].args)
      => /\ tasks[t1].ret[1].threw = tasks[t2].ret[1].threw
         /\ tasks[t1].ret[1].result = tasks[t2].ret[1].result

\* Two callers have the same country from resolve for the same point, on a
\* loader that has its tables from its setters and whose data files hold a
\* different store.
C6_Witness ==
  /\ Loaded
  /\ loadPromise = "null"
  /\ files # None
  /\ files[1].polygons # polygons[1]
  /\ \E t1 \in DOMAIN tasks, t2 \in DOMAIN tasks :
       /\ t1 # t2
       /\ Finished(t1, "resolve")
       /\ Finished(t2, "resolve")
       /\ tasks[t1].args = tasks[t2].args
       /\ ~tasks[t1].ret[1].threw
       /\ ReturnOf(t1).countryId # <<>>
       /\ ReturnOf(t2) = ReturnOf(t1)

\* C7: no step taken while the loader is loaded changes the geohash index, the
\* polygons table or the metadata table.
C7_QueriesLeaveTablesUnchanged ==
  [][Loaded => /\ geohashIndex' = geohashIndex
               /\ polygons' = polygons
               /\ metadata' = metadata]_vars

\* resolve, resolveByCountry and getCandidateCountries have returned on a
\* loader loaded through its setters whose data files hold a different store.
C7_Witness ==
  /\ Loaded
  /\ files # None
  /\ files[1].geohashIndex # geohashIndex[1]
  /\ \E t \in DOMAIN tasks :
       Finished(t, "resolve") /\ ~tasks[t].ret[1].threw
  /\ \E t \in DOMAIN tasks :
       \/ Finished(t, "resolveByCountry") /\ ~tasks[t].ret[1].threw
       \/ Finished(t, "getCandidateCountries") /\ ~tasks[t].ret[1].threw

(***************************************************************************)
(* SpecIndex: calls of getCandidateCountries on a DataLoader whose         *)
(* geohash index was set with setGeohashIndex.                             *)
(***************************************************************************)

\* Indexes whose keys are among a chain of prefixes and one key beside the
\* chain, each with a list that is empty, has one id, or has a repetition.
IndexPool ==
  UNION { [ks -> { <<>>, <<1>>, <<2>>, <<1, 2, 1>> }] :
            ks \in SUBSET { <<"s">>, <<"s", "0">>, <<"s", "0", "0">>, <<"s", "1">> } }

IndexHashes ==
  { <<"s">>, <<"s", "0">>, <<"s", "0", "0">>, <<"s", "0", "1">>,
    <<"s", "1", "0">>, <<"t", "0">> }

IndexInit ==
  /\ geohashIndex \in { Some(i) : i \in IndexPool }
  /\ polygons = None
  /\ metadata = None
  /\ loadPromise = "null"
  /\ _loader = None
  /\ monitor = None
  /\ files = None
  /\ tasks = [t \in {1} |-> IdleTask]

IndexNext ==
  \E t \in DOMAIN tasks, g \in IndexHashes : GetCandidateCountriesCall(t, g)

SpecIndex == IndexInit /\ [][IndexNext]_vars

\* The prefixes of g that are keys of the index.
PrefixKeys(index, g) ==
  { k \in DOMAIN index : Len(k) >= 1 /\ Len(k) <= Len(g) /\ k = SubSeq(g, 1, Len(k)) }

\* The list the result is taken from: the list under g when it is non-empty,
\* else the list under the longest prefix key, else the empty list.
SourceList(index, g) ==
  IF g \in DOMAIN index /\ index[g] # <<>> THEN index[g]
  ELSE IF PrefixKeys(index, g) # {}
  THEN index[CHOOSE k \in PrefixKeys(index, g) :
               \A j \in PrefixKeys(index, g) : Len(j) <= Len(k)]
  ELSE <<>>

FirstAt(list, x) == CHOOSE k \in 1..Len(list) : list[k] = x /\ \A j \in 1..(k - 1) : list[j] # x

\* C13: getCandidateCountries(g) returns, without duplicates and in the order
\* of first appearance, the ids of the list under g when that list is
\* non-empty, else of the list under the longest prefix of g that is a key,
\* else nothing; every id returned is stored under a key that is a prefix of g.
C13_CandidatesFromLongestPrefix ==
  \A t \in DOMAIN tasks :
    (Finished(t, "getCandidateCountries") /\ geohashIndex # None)
      => LET g == tasks[t].args[1]
             src == SourceList(geohashIndex[1], g)
             r == ReturnOf(t)
         IN  /\ ~tasks[t].ret[1].threw
             /\ \A j, k \in 1..Len(r) : j # k => r[j] # r[k]
             /\ { r[k] : k \in 1..Len(r) } = { src[k] : k \in 1..Len(src) }
             /\ \A j, k \in 1..Len(r) : j < k => FirstAt(src, r[j]) < FirstAt(src, r[k])
             /\ \A k \in 1..Len(r) :
                  \E key \in PrefixKeys(geohashIndex[1], g) :
                    \E n \in 1..Len(geohashIndex[1][key]) : geohashIndex[1][key][n] = r[k]

\* A call whose exact key holds an empty list, or is no key, while a shorter
\* prefix holds a list with a repetition and a key beside the chain holds ids.
C13_Witness ==
  \E t \in DOMAIN tasks :
    /\ Finished(t, "getCandidateCountries")
    /\ geohashIndex # None
    /\ tasks[t].args[1] = <<"s", "0", "1">>
    /\ <<"s", "0">> \in DOMAIN geohashIndex[1]
    /\ geohashIndex[1][<<"s", "0">>] = <<>>
    /\ <<"s">> \in DOMAIN geohashIndex[1]
    /\ geohashIndex[1][<<"s">>] = <<1, 2, 1>>
    /\ <<"s", "1">> \in DOMAIN geohashIndex[1]
    /\ geohashIndex[1][<<"s", "1">>] = <<2>>
    /\ ReturnOf(t) = <<>>

(***************************************************************************)
(* SpecConf: calls of calculateConfidence.                                 *)
(***************************************************************************)

MaxCount == 6

\* Exterior rings: a square with axis-parallel edges, and a ring with a
\* slanted edge that gives distances under 0.01 degree.
ConfPolygons ==
  { << <<0, 0>>, <<0, 40>>, <<40, 40>>, <<40, 0>> >>,
    << <<0, 0>>, <<1, 3>>, <<30, 30>>, <<30, 0>> >> }

\* Lists of holes: none; one far from the points; a far one and a near one.
ConfHoleLists ==
  { <<>>,
    << << <<30, 30>>, <<30, 35>>, <<35, 35>>, <<35, 30>> >> >>,
    << << <<30, 30>>, <<30, 35>>, <<35, 35>>, <<35, 30>> >>,
       << <<18, 15>>, <<18, 17>>, <<22, 17>>, <<22, 15>> >> >> }

\* Points at 0.00 to 0.12 degree from the edge lon = 0 of the square, and
\* points beside the slanted edge.
ConfPoints == { <<20, x>> : x \in 0..12 } \cup { <<0, 1>>, <<1, 1>>, <<2, 3>> }

ConfCalls == ConfPoints \X ConfPolygons \X ConfHoleLists

ConfInit ==
  /\ geohashIndex = None
  /\ polygons = None
  /\ metadata = None
  /\ loadPromise = "null"
  /\ _loader = None
  /\ monitor = None
  /\ files = None
  /\ tasks \in { [t \in {1} |-> CalledTask("calculateConfidence",
                                            <<c[1], c[2], c[3], n>>)] :
                   c \in ConfCalls, n \in 1..MaxCount }

\* calculateConfidence(point, polygon, holes, candidateCount) from its call to
\* its return.
CalculateConfidenceReturn(t) ==
  /\ tasks[t].pc = "called"
  /\ tasks[t].op = "calculateConfidence"
  /\ tasks' = [tasks EXCEPT ![t].pc = "done",
                 ![t].ret = Some(Returned(CalculateConfidence(tasks[t].args[1],
                                                              tasks[t].args[2],
                                                              tasks[t].args[3],
                                                              tasks[t].args[4]),
                                          <<>>, <<>>))]
  /\ UNCHANGED <<_loader, monitor, geohashIndex, polygons, metadata, loadPromise, files>>

ConfNext == \E t \in DOMAIN tasks : CalculateConfidenceReturn(t)

SpecConf == ConfInit /\ [][ConfNext]_vars

\* The boundary distance of a point: the least of the distances to the
\* exterior ring and to every hole.
BoundaryDistance(point, polygon, holes) ==
  LET ds == { DistanceToPolygonEdge(point, polygon) }
              \cup { DistanceToPolygonEdge(point, holes[k]) : k \in 1..Len(holes) }
  IN  CHOOSE d \in ds : \A e \in ds : d <= e

\* C14: for a fixed candidateCount the confidence is non-decreasing in the
\* boundary distance: a call whose boundary distance is at most that of
\* another call with the same candidateCount returns at most its confidence.
C14_ConfidenceNonDecreasingInDistance ==
  \A t \in DOMAIN tasks :
    Finished(t, "calculateConfidence")
      => \A d \in { BoundaryDistance(tasks[t].args[1], tasks[t].args[2],
                                     tasks[t].args[3]) } :
           \A c \in ConfCalls :
             d <= BoundaryDistance(c[1], c[2], c[3])
               => ReturnOf(t) <= CalculateConfidence(c[1], c[2], c[3], tasks[t].args[4])

\* A finished call in the tier from 0.05 to 0.1 degree, close under 0.1, with
\* calls in the pool at 0.1 degree and more, in the tier below and under 0.01.
C14_Witness ==
  \E t \in DOMAIN tasks :
    /\ Finished(t, "calculateConfidence")
    /\ BoundaryDistance(tasks[t].args[1], tasks[t].args[2], tasks[t].args[3])
         = 9 * (DistDen \div 100)
    /\ ReturnOf(t) = 96 * (ConfDen \div 100)
    /\ \E c \in ConfCalls : BoundaryDistance(c[1], c[2], c[3]) = DistDen \div 10
    /\ \E c \in ConfCalls :
         /\ BoundaryDistance(c[1], c[2], c[3]) > 0
         /\ BoundaryDistance(c[1], c[2], c[3]) < DistDen \div 100
    /\ \E c \in ConfCalls : BoundaryDistance(c[1], c[2], c[3]) = 3 * (DistDen \div 100)

Rec(name, iso2, iso3, timezone) ==
  [name |-> name, iso2 |-> iso2, iso3 |-> iso3, continent |-> "Africa",
   timezone |-> timezone]

\* Records: Niger, Nigeria, South Sudan, Chad, and two whose name is the
\* ISO2, and the ISO3, of Nigeria.
RevRecordPool ==
  << Rec(<<"N", "i", "g", "e", "r">>, <<"N", "E">>, <<"N", "E", "R">>, "Africa/Niamey"),
     Rec(<<"N", "i", "g", "e", "r", "i", "a">>, <<"N", "G">>, <<"N", "G", "A">>, "Africa/Lagos"),
     Rec(<<"S", "o", "u", "t", "h", " ", "S", "u", "d", "a", "n">>, <<"S", "S">>, <<"S", "S", "D">>, "Africa/Juba"),
     Rec(<<"C", "h", "a", "d">>, <<"T", "D">>, <<"T", "C", "D">>, "Africa/Ndjamena"),
     Rec(<<"N", "g">>, <<"X", "A">>, <<"X", "A", "A">>, "Etc/UTC"),
     Rec(<<"N", "g", "a">>, <<"X", "B">>, <<"X", "B", "B">>, "Etc/UTC") >>

\* Metadata tables, keyed 1..n in iteration order: a name contained in the
\* name of a later record; in the name of an earlier record; a name equal to
\* the ISO2, and to the ISO3, of a later record.
RevMetadataTables ==
  { <<RevRecordPool[1], RevRecordPool[2], RevRecordPool[3]>>,
    <<RevRecordPool[2], RevRecordPool[1], RevRecordPool[4]>>,
    <<RevRecordPool[5], RevRecordPool[2]>>,
    <<RevRecordPool[6], RevRecordPool[2]>> }

RevPolygons ==
  << [multi |-> FALSE, exterior |-> SqA, exteriors |-> None, holes |-> <<>>],
     [multi |-> FALSE, exterior |-> SqB, exteriors |-> None, holes |-> <<HoleA>>],
     [multi |-> TRUE, exterior |-> SqB, exteriors |-> Some(<<Tri, <<>>, SqA>>),
      holes |-> <<>>] >>

\* The polygon table without a record for country 2.
RevPolygonsMissing == [c \in {1, 3} |-> RevPolygons[c]]

RevStores ==
  { [geohashIndex |-> IndexEmpty, polygons |-> p, metadata |-> m] :
      m \in RevMetadataTables, p \in {RevPolygons, RevPolygonsMissing} }

\* The ways of writing a record's identifiers: the name as it is, in upper
\* and in lower case, between blanks, with '_' and with '-' for its blanks;
\* the ISO codes as they are, in lower case, between blanks.
Variants(rec) ==
  { rec.name, ToUpperCase(rec.name), ToLowerCase(rec.name),
    <<" ">> \o rec.name \o <<" ", " ">>,
    ReplaceAll(rec.name, " ", "_"), ReplaceAll(ToUpperCase(rec.name), " ", "-"),
    rec.iso2, ToLowerCase(rec.iso2), <<" ">> \o rec.iso2,
    rec.iso3, ToLowerCase(rec.iso3), ToLowerCase(rec.iso3) \o <<" ">> }

\* Inputs: every way of writing every record, parts of names, a text that
\* contains a name, texts that match nothing, the empty text and blanks.
ReverseInputs ==
  UNION { Variants(RevRecordPool[k]) : k \in DOMAIN RevRecordPool }
    \cup { <<"N", "i", "g", "e">>, <<"g", "e", "r", "i", "a">>, <<"C", "h", "a", "d", "i", "a", "n">>, <<"s", "o", "u", "t", "h">>, <<"M", "a", "l", "i">>, <<"X", "Y", "Z">>, <<"Q">>,
           <<>>, <<" ", " ">> }

\* The loader has its three tables from its setters, or has none and loads
\* them from its data files, which may be missing.
ReverseInit ==
  /\ \/ /\ \E st \in RevStores :
             /\ geohashIndex = Some(st.geohashIndex)
             /\ polygons = Some(st.polygons)
             /\ metadata = Some(st.metadata)
        /\ files = None
     \/ /\ geohashIndex = None
        /\ polygons = None
        /\ metadata = None
        /\ files \in {None} \cup { Some(st) : st \in RevStores }
  /\ loadPromise = "null"
  /\ _loader = None
  /\ monitor = None
  /\ tasks = [t \in {1} |-> IdleTask]

ReverseNext ==
  \/ \E t \in DOMAIN tasks, c \in ReverseInputs : ResolveByCountryStart(t, c)
  \/ \E t \in DOMAIN tasks : ResolveByCountryFinish(t)
  \/ LoadComplete
  \/ LoadFail

SpecReverse == ReverseInit /\ [][ReverseNext]_vars

\* The identifiers of a record, letter case aside.
FoldedIdentifiers(rec) ==
  { ToLowerCase(rec.name), ToLowerCase(rec.iso2), ToLowerCase(rec.iso3) }

\* No identifier of the record is an identifier of another record.
UniqueIdentifiers(meta, id) ==
  \A o \in DOMAIN meta \ {id} :
    FoldedIdentifiers(meta[id]) \cap FoldedIdentifiers(meta[o]) = {}

\* The country has a polygon record with a non-empty exterior ring.
HasCentroid(polys, id) ==
  /\ id \in DOMAIN polys
  /\ \E k \in 1..Len(ExteriorsOf(polys[id])) : Len(ExteriorsOf(polys[id])[k]) > 0

\* The finished call returned the record id of the table, with the mean of
\* the centroids of its exterior rings and confidence 1.0.
ReturnedRecord(t, id) ==
  /\ ~tasks[t].ret[1].threw
  /\ ReturnOf(t).countryName = metadata[1][id].name
  /\ ReturnOf(t).iso2 = metadata[1][id].iso2
  /\ ReturnOf(t).iso3 = metadata[1][id].iso3
  /\ ReturnOf(t).continent = metadata[1][id].continent
  /\ ReturnOf(t).timezone = metadata[1][id].timezone
  /\ ReturnOf(t).latitude
       = CentroidAverage(AllCentroids(ExteriorsOf(polygons[1][id]), 1), 1)
  /\ ReturnOf(t).longitude
       = CentroidAverage(AllCentroids(ExteriorsOf(polygons[1][id]), 1), 2)
  /\ ReturnOf(t).confidence = ConfDen

\* C16: for a record whose name, ISO2 and ISO3 are identifiers of no other
\* record and that has a polygon, resolveByCountry given the name, the ISO2 or
\* the ISO3 of the record, in any letter case, between blanks, or with '_' or
\* '-' for the blanks of the name, returns that record with its centroid
\* coordinates and confidence 1.0.
C16_EveryIdentifierFormFindsTheRecord ==
  \A t \in DOMAIN tasks :
    (Finished(t, "resolveByCountry") /\ Loaded)
      => \A id \in DOMAIN metadata[1] :
           ( /\ UniqueIdentifiers(metadata[1], id)
             /\ HasCentroid(polygons[1], id)
             /\ tasks[t].args[1] \in Variants(metadata[1][id]) )
             => ReturnedRecord(t, id)

\* A finished call given "SOUTH-SUDAN" where South Sudan is the third record,
\* and one given " NE" where Niger comes after Nigeria.
C16_Witness ==
  \E t \in DOMAIN tasks :
    /\ Finished(t, "resolveByCountry")
    /\ Loaded
    /\ \/ /\ tasks[t].args[1] = <<"S", "O", "U", "T", "H", "-", "S", "U", "D", "A", "N">>
          /\ 3 \in DOMAIN metadata[1]
          /\ metadata[1][3] = RevRecordPool[3]
          /\ ReturnedRecord(t, 3)
       \/ /\ tasks[t].args[1] = <<" ", "N", "E">>
          /\ metadata[1][2] = RevRecordPool[1]
          /\ HasCentroid(polygons[1], 2)
          /\ ReturnedRecord(t, 2)

\* The records whose ISO2, ISO3 or normalized name equals the input.
ExactMatches(meta, input) ==
  { id \in DOMAIN meta :
      \/ ToUpperCase(meta[id].iso2) = ToUpperCase(Trim(input))
      \/ ToUpperCase(meta[id].iso3) = ToUpperCase(Trim(input))
      \/ NormalizeCountryName(meta[id].name) = NormalizeCountryName(input) }

\* C17: when the input equals the ISO2 of some record, the record returned has
\* that ISO2, whatever an earlier record matches by; when it equals no ISO2
\* but the ISO3 of some record, the record returned has that ISO3.
C17_ExactTiersInOrder ==
  \A t \in DOMAIN tasks :
    (Finished(t, "resolveByCountry") /\ Loaded /\ ~tasks[t].ret[1].threw)
      => LET input == ToUpperCase(Trim(tasks[t].args[1]))
             byIso2 == { id \in DOMAIN metadata[1] :
                           ToUpperCase(metadata[1][id].iso2) = input }
             byIso3 == { id \in DOMAIN metadata[1] :
                           ToUpperCase(metadata[1][id].iso3) = input }
         IN  /\ byIso2 # {} => ToUpperCase(ReturnOf(t).iso2) = input
             /\ (byIso2 = {} /\ byIso3 # {}) => ToUpperCase(ReturnOf(t).iso3) = input

\* C17 as the code has it: the exact checks go record by record, and the
\* record returned is the first in iteration order whose ISO2, ISO3 or
\* normalized name equals the input; the call throws when that record has no
\* polygon to take a centroid from.
C17_FirstExactRecordWins ==
  \A t \in DOMAIN tasks :
    (Finished(t, "resolveByCountry") /\ Loaded
       /\ ExactMatches(metadata[1], tasks[t].args[1]) # {})
      => LET first == CHOOSE id \in ExactMatches(metadata[1], tasks[t].args[1]) :
                        \A o \in ExactMatches(metadata[1], tasks[t].args[1]) : id <= o
         IN  IF HasCentroid(polygons[1], first)
             THEN ReturnedRecord(t, first)
             ELSE tasks[t].ret[1].threw

\* A finished call given "NG" where the first record is named "Ng" and the
\* second has ISO2 "NG": the first record is returned.
C17_Witness ==
  \E t \in DOMAIN tasks :
    /\ Finished(t, "resolveByCountry")
    /\ Loaded
    /\ tasks[t].args[1] = <<"N", "G">>
    /\ metadata[1] = <<RevRecordPool[5], RevRecordPool[2]>>
    /\ ReturnedRecord(t, 1)
    /\ ReturnOf(t).iso2 = <<"X", "A">>

\* C18: when some record matches the input exactly, by ISO2, ISO3 or
\* normalized name, the record returned is one that matches exactly, even when
\* the name of an earlier record contains the input or is contained in it; the
\* call throws only when an exactly matching record has no polygon.
C18_ExactBeatsSubstring ==
  \A t \in DOMAIN tasks :
    (Finished(t, "resolveByCountry") /\ Loaded
       /\ ExactMatches(metadata[1], tasks[t].args[1]) # {})
      => IF tasks[t].ret[1].threw
         THEN \E id \in ExactMatches(metadata[1], tasks[t].args[1]) :
                ~HasCentroid(polygons[1], id)
         ELSE \E id \in ExactMatches(metadata[1], tasks[t].args[1]) :
                ReturnedRecord(t, id)

\* A finished call given "niger" where the first record is Nigeria, whose
\* name contains the input, and the second is Niger: Niger is returned.
C18_Witness ==
  \E t \in DOMAIN tasks :
    /\ Finished(t, "resolveByCountry")
    /\ Loaded
    /\ tasks[t].args[1] = <<"n", "i", "g", "e", "r">>
    /\ metadata[1][1] = RevRecordPool[2]
    /\ metadata[1][2] = RevRecordPool[1]
    /\ Includes(NormalizeCountryName(metadata[1][1].name), tasks[t].args[1])
    /\ ReturnedRecord(t, 2)

\* The input equals no ISO2, ISO3 or normalized name, and neither contains a
\* normalized name nor is contained in one.
NoMatch(meta, input) ==
  /\ ExactMatches(meta, input) = {}
  /\ \A id \in DOMAIN meta :
       /\ ~Includes(NormalizeCountryName(meta[id].name), NormalizeCountryName(input))
       /\ ~Includes(NormalizeCountryName(input), NormalizeCountryName(meta[id].name))

\* C19: on a loaded DataLoader every step of a resolveByCountry call whose
\* input matches no record leaves the three tables unchanged, and the call
\* ends with an error and no result.
C19_NoMatchThrows ==
  [][ \A t \in DOMAIN tasks :
        ( /\ tasks'[t] # tasks[t]
          /\ tasks'[t].op = "resolveByCountry"
          /\ Loaded
          /\ NoMatch(metadata[1], tasks'[t].args[1]) )
          => /\ UNCHANGED <<geohashIndex, polygons, metadata>>
             /\ tasks'[t].pc = "done" => tasks'[t].ret = Some(Thrown) ]_vars

\* A finished call given "XYZ", or "Mali", on a loaded DataLoader none of
\* whose records it matches.
C19_Witness ==
  \E t \in DOMAIN tasks :
    /\ Finished(t, "resolveByCountry")
    /\ Loaded
    /\ tasks[t].args[1] \in { <<"X", "Y", "Z">>, <<"M", "a", "l", "i">> }
    /\ NoMatch(metadata[1], tasks[t].args[1])
    /\ tasks[t].ret[1].threw

(***************************************************************************)
(* SpecLoad: callers of DataLoader.load() and of the three setters on one  *)
(* DataLoader whose data files hold a store or are missing.                *)
(***************************************************************************)

\* setGeohashIndex(index), setPolygons(polygons), setMetadata(metadata)
SetGeohashIndex(index) ==
  /\ geohashIndex' = Some(index)
  /\ UNCHANGED <<_loader, monitor, polygons, metadata, loadPromise, files, tasks>>

SetPolygons(polys) ==
  /\ polygons' = Some(polys)
  /\ UNCHANGED <<_loader, monitor, geohashIndex, metadata, loadPromise, files, tasks>>

SetMetadata(meta) ==
  /\ metadata' = Some(meta)
  /\ UNCHANGED <<_loader, monitor, geohashIndex, polygons, loadPromise, files, tasks>>

\* load() up to the promise it returns, which its caller awaits.  The files
\* are read by the load that a new pending loadPromise stands for.
LoadCall(t) ==
  /\ tasks[t].pc \in {"idle", "done"}
  /\ loadPromise' = LoadPromiseAfterLoad(geohashIndex, polygons, metadata, loadPromise)
  /\ tasks' = [tasks EXCEPT ![t] =
                 [pc |-> "awaitLoad", op |-> "load", args |-> <<>>,
                  awaiting |-> LoadReturns(geohashIndex, polygons, metadata),
                  ret |-> None]]
  /\ UNCHANGED <<_loader, monitor, geohashIndex, polygons, metadata, files>>

\* The promise that load() returned is fulfilled: the caller goes on.
LoadReturn(t) ==
  /\ tasks[t].pc = "awaitLoad"
  /\ tasks[t].op = "load"
  /\ AwaitDone(t)
  /\ tasks' = [tasks EXCEPT ![t].pc = "done",
                            ![t].ret = Some(Returned("undefined", <<>>, <<>>))]
  /\ UNCHANGED <<_loader, monitor, geohashIndex, polygons, metadata, loadPromise, files>>

\* A DataLoader as constructed; its data files hold a store or are missing.
LoadInit ==
  /\ geohashIndex = None
  /\ polygons = None
  /\ metadata = None
  /\ loadPromise = "null"
  /\ _loader = None
  /\ monitor = None
  /\ files \in { None, Some(StoreA), Some(StoreB) }
  /\ tasks = [t \in 1..MaxTask |-> IdleTask]

LoadNext ==
  \/ \E st \in {StoreA, StoreB} : SetGeohashIndex(st.geohashIndex)
  \/ \E st \in {StoreA, StoreB} : SetPolygons(st.polygons)
  \/ \E st \in {StoreA, StoreB} : SetMetadata(st.metadata)
  \/ \E t \in DOMAIN tasks : LoadCall(t)
  \/ \E t \in DOMAIN tasks : LoadReturn(t)
  \/ LoadComplete
  \/ LoadFail

SpecLoad == LoadInit /\ [][LoadNext]_vars

\* C20: a load of the data files starts only when no load is in flight, none
\* has succeeded and the three tables are not all set; a load() call changes
\* no table; issued while a load is in flight and a table is missing it awaits
\* that load; issued when the three tables are set, by a load or by the
\* setters, it starts no load and returns a resolved promise; after a load
\* has succeeded none starts again.
C20_LoadReadsFilesAtMostOnce ==
  [][ /\ (loadPromise' = "pending" /\ loadPromise # "pending")
           => (loadPromise = "null" /\ ~Loaded)
      /\ loadPromise = "fulfilled" => (loadPromise' = "fulfilled" /\ Loaded /\ Loaded')
      /\ \A t \in DOMAIN tasks :
           (tasks'[t] # tasks[t] /\ tasks'[t].op = "load")
             => /\ UNCHANGED <<geohashIndex, polygons, metadata>>
                /\ tasks'[t].pc = "awaitLoad"
                     => /\ (loadPromise = "pending" /\ ~Loaded)
                             => /\ loadPromise' = loadPromise
                                /\ tasks'[t].awaiting = "loadPromise"
                        /\ Loaded
                             => /\ loadPromise' = loadPromise
                                /\ tasks'[t].awaiting = "resolved" ]_vars

\* One caller has come back from the load it awaited, the load has succeeded,
\* and another caller has called load() since and has a resolved promise.
C20_Witness ==
  /\ loadPromise = "fulfilled"
  /\ \E t1, t2 \in DOMAIN tasks :
       /\ t1 # t2
       /\ Finished(t1, "load")
       /\ ~tasks[t1].ret[1].threw
       /\ tasks[t1].awaiting = "loadPromise"
       /\ tasks[t2].pc = "awaitLoad"
       /\ tasks[t2].op = "load"
       /\ tasks[t2].awaiting = "resolved"

(***************************************************************************)
(* SpecGlobal: calls of resolve(lat, lon, {dataDir}) that pass no loader   *)
(* and so share the module-level loader of getLoader.                      *)
(***************************************************************************)

\* The data files of a directory: the package's own data, a custom store,
\* a directory without data files.
DataDirs == { "./data", "/custom", "/absent" }

DirFiles(dataDir) ==
  IF dataDir = "./data" THEN Some(StoreA)
  ELSE IF dataDir = "/custom" THEN Some(StoreB)
  ELSE None

\* getLoader(dataDir): dataDir is None when the caller passed none.  The
\* loader is constructed on the first call only.
GetLoader(loader, dataDir) ==
  IF loader = None
  THEN Some([dataDir |-> IF dataDir = None THEN "./data" ELSE dataDir[1]])
  ELSE loader

\* resolve(lat, lon, {dataDir}) of index.ts up to the await of loader.load()
\* in the resolver: getLoader, then the resolver's call of load().
ResolveWithDataDirStart(t, lat, lon, dataDir) ==
  /\ tasks[t].pc \in {"idle", "done"}
  /\ _loader' = GetLoader(_loader, dataDir)
  /\ files' = IF _loader = None THEN DirFiles(GetLoader(_loader, dataDir)[1].dataDir)
              ELSE files
  /\ loadPromise' = LoadPromiseAfterLoad(geohashIndex, polygons, metadata, loadPromise)
  /\ tasks' = [tasks EXCEPT ![t] =
                 [pc |-> "awaitLoad", op |-> "resolve", args |-> <<lat, lon, dataDir>>,
                  awaiting |-> LoadReturns(geohashIndex, polygons, metadata),
                  ret |-> None]]
  /\ UNCHANGED <<geohashIndex, polygons, metadata, monitor>>

\* Two callers of resolve in one process.
GlobalCallers == {1, 2}

GlobalInit ==
  /\ geohashIndex = None
  /\ polygons = None
  /\ metadata = None
  /\ loadPromise = "null"
  /\ _loader = None
  /\ monitor = None
  /\ files = None
  /\ tasks = [t \in GlobalCallers |-> IdleTask]

GlobalNext ==
  \/ \E t \in DOMAIN tasks, q \in ConcQueries,
        d \in {None} \cup { Some(dir) : dir \in DataDirs } :
       ResolveWithDataDirStart(t, q[1], q[2], d)
  \/ \E t \in DOMAIN tasks : ResolveFinish(t)
  \/ LoadComplete
  \/ LoadFail

SpecGlobal == GlobalInit /\ [][GlobalNext]_vars

\* C21: a finished resolve call that was given a dataDir has the answer of
\* the data stored in that directory, and has thrown when the directory holds
\* no data files.
C21_AnswersFromGivenDataDir ==
  \A t \in DOMAIN tasks :
    (Finished(t, "resolve") /\ tasks[t].args[3] # None)
      => IF DirFiles(tasks[t].args[3][1]) = None
         THEN tasks[t].ret[1].threw
         ELSE tasks[t].ret[1]
                = ResolveRun(tasks[t].args[1], tasks[t].args[2],
                             DirFiles(tasks[t].args[3][1])[1].geohashIndex,
                             DirFiles(tasks[t].args[3][1])[1].polygons,
                             DirFiles(tasks[t].args[3][1])[1].metadata)

(***************************************************************************)
(* geofence: determineState, generateAlerts, GeofenceMonitor and           *)
(* checkGeofence.  A distance in km is held in 1/KmDen km, a length in     *)
(* meters as an integer.  Locations are [lat, lon] pairs in 1/100 degree   *)
(* on one meridian, where the haversine distance is EARTH_RADIUS_KM times  *)
(* the difference of the latitudes in radians, or names (sequences of      *)
(* characters, of a length other than 2).                                  *)
(***************************************************************************)

KmDen == 10 ^ 3

\* EARTH_RADIUS_KM * PI / 180 in meters, rounded.
MetersPerDegree == 111195

HaversineThrows(lat1, lon1, lat2, lon2) ==
  \/ lat1 < -90 * CoordDen \/ lat1 > 90 * CoordDen
  \/ lat2 < -90 * CoordDen \/ lat2 > 90 * CoordDen
  \/ lon1 < -180 * CoordDen \/ lon1 > 180 * CoordDen
  \/ lon2 < -180 * CoordDen \/ lon2 > 180 * CoordDen

\* haversineDistance for lon1 = lon2, in 1/KmDen km, rounded down.
HaversineDistance(lat1, lon1, lat2, lon2) ==
  (Abs(lat2 - lat1) * MetersPerDegree * KmDen) \div (CoordDen * 1000)

\* convertToMeters(value / den, unit), rounded down.
ConvertToMeters(value, den, unit) ==
  IF unit = "m" THEN value \div den
  ELSE IF unit = "km" THEN (value * 1000) \div den
  ELSE (value * 160934) \div (100 * den)

\* convertFromMeters(value, unit) in 1/KmDen of the unit, rounded down.
ConvertFromMeters(value, unit) ==
  IF unit = "m" THEN value * KmDen
  ELSE IF unit = "km" THEN (value * KmDen) \div 1000
  ELSE (value * KmDen * 100) \div 160934

\* Variant: determineState without its memory of the previous state.
DetermineStateMemoryless(isInside, previousState, distanceM, radiusM, insideBufferM, outsideBufferM, previousDistanceM) ==
  IF distanceM <= radiusM + insideBufferM THEN "inside" ELSE "outside"

\* Variant: determineState that tests the radius without the inside buffer.
DetermineStateNoBuffer(isInside, previousState, distanceM, radiusM, insideBufferM, outsideBufferM, previousDistanceM) ==
  IF distanceM <= radiusM
  THEN (IF previousState # None /\ previousState[1] \in {"inside", "leaving"}
           /\ previousDistanceM # None /\ previousDistanceM[1] - distanceM < 0
        THEN "leaving" ELSE "inside")
  ELSE (IF previousState # None /\ previousState[1] \in {"outside", "approaching"}
           /\ previousDistanceM # None /\ previousDistanceM[1] - distanceM > 0
        THEN "approaching" ELSE "outside")

\* previousState and previousDistanceM are None while null.
DetermineState(isInside, previousState, distanceM, radiusM, insideBufferM, outsideBufferM, previousDistanceM) ==
  LET actuallyInside == distanceM <= radiusM + insideBufferM
  IN  IF previousState = None
      THEN (IF actuallyInside THEN "inside" ELSE "outside")
      ELSE IF previousDistanceM # None
      THEN LET distanceChange == previousDistanceM[1] - distanceM
           IN  IF actuallyInside
               THEN IF previousState[1] \in {"outside", "approaching"} THEN "inside"
                    ELSE IF distanceChange > 0 THEN "inside"
                    ELSE IF distanceChange < 0 THEN "leaving"
                    ELSE "inside"
               ELSE IF previousState[1] \in {"inside", "leaving"} THEN "outside"
                    ELSE IF distanceChange < 0 THEN "outside"
                    ELSE IF distanceChange > 0 THEN "approaching"
                    ELSE "outside"
      ELSE (IF actuallyInside THEN "inside" ELSE "outside")

\* v || d for a number v that may be undefined (None) or 0.
OrDefault(v, d) == IF v = None \/ v[1] = 0 THEN d ELSE v[1]

Alert(alertType, distance, state, previousDistance) ==
  [alertType |-> alertType, distance |-> distance, unit |-> "km", state |-> state,
   previousDistance |-> previousDistance]

\* Variant: the 'exited' alert is raised from INSIDE only, not from LEAVING.
TransitionAlertsFromInsideOnly(state, previousState, distance, previousDistance) ==
  IF previousState # None /\ previousState[1] # state
  THEN IF state = "inside" /\ previousState[1] \in {"outside", "approaching"}
       THEN <<Alert("entered", distance, state, previousDistance)>>
       ELSE IF state = "outside" /\ previousState[1] = "inside"
       THEN <<Alert("exited", distance, state, previousDistance)>>
       ELSE <<>>
  ELSE <<>>

\* The state transition alerts of generateAlerts.
TransitionAlerts(state, previousState, distance, previousDistance) ==
  IF previousState # None /\ previousState[1] # state
  THEN IF state = "inside" /\ previousState[1] \in {"outside", "approaching"}
       THEN <<Alert("entered", distance, state, previousDistance)>>
       ELSE IF state = "outside" /\ previousState[1] \in {"inside", "leaving"}
       THEN <<Alert("exited", distance, state, previousDistance)>>
       ELSE <<>>
  ELSE <<>>

\* The threshold alerts of generateAlerts: approaching, leaving, reached.
\* distance and previousDistance are in 1/KmDen km; a percentage p of the
\* previous distance is compared as 100 * change against p * previous.
ThresholdAlerts(state, previousState, distance, radius, radiusUnit, config, previousDistance) ==
  IF previousDistance = None THEN <<>>
  ELSE LET distanceM == ConvertToMeters(distance, KmDen, "km")
           previousDistanceM == ConvertToMeters(previousDistance[1], KmDen, "km")
           distanceChange == previousDistanceM - distanceM
           reachedThresholdM ==
             IF config.reachedThreshold = None \/ config.reachedThreshold[1] = 0
             THEN ConvertToMeters(radius, 10, radiusUnit)
             ELSE ConvertToMeters(config.reachedThreshold[1], 1, radiusUnit)
           approaching ==
             IF /\ state = "approaching"
                /\ previousDistanceM > 0
                /\ 100 * distanceChange
                     >= OrDefault(config.approachingThresholdPercent, 10) * previousDistanceM
             THEN <<Alert("approaching", distance, state, previousDistance)>>
             ELSE <<>>
           leaving ==
             IF /\ state = "leaving"
                /\ previousDistanceM > 0
                /\ 100 * distanceChange
                     <= -OrDefault(config.leavingThresholdPercent, 10) * previousDistanceM
             THEN <<Alert("leaving", distance, state, previousDistance)>>
             ELSE <<>>
           reached ==
             IF /\ state = "inside"
                /\ distanceM <= reachedThresholdM
                /\ (previousState = None \/ previousState[1] \in {"outside", "approaching"})
             THEN <<Alert("reached", distance, state, previousDistance)>>
             ELSE <<>>
       IN  approaching \o leaving \o reached

GenerateAlerts(state, previousState, distance, radius, radiusUnit, config, previousDistance) ==
  TransitionAlerts(state, previousState, distance, previousDistance)
    \o ThresholdAlerts(state, previousState, distance, radius, radiusUnit, config,
                       previousDistance)

\* new GeofenceMonitor(config): the defaults of the constructor, the state
\* fields null.
NewGeofenceMonitor(config) ==
  [config |->
     [radius |-> config.radius,
      radiusUnit |-> config.radiusUnit,
      reachedThreshold |->
        IF config.reachedThreshold = None \/ config.reachedThreshold[1] = 0
        THEN None ELSE config.reachedThreshold,
      approachingThresholdPercent |-> Some(OrDefault(config.approachingThresholdPercent, 10)),
      leavingThresholdPercent |-> Some(OrDefault(config.leavingThresholdPercent, 10)),
      insideBuffer |-> Some(OrDefault(config.insideBuffer, 0)),
      outsideBuffer |-> Some(OrDefault(config.outsideBuffer, 0))],
   previousState |-> None,
   previousDistance |-> None,
   previousDistanceUnit |-> None,
   destinationCoords |-> None]

\* GeofenceMonitor.reset()
ResetMonitor(m) ==
  [m EXCEPT !.previousState = None, !.previousDistance = None,
            !.previousDistanceUnit = None, !.destinationCoords = None]

\* Array.isArray(location) && location.length === 2
IsCoords(location) == Len(location) = 2

\* Step 1 of check, called without a resolve function: destinationCoords
\* after it; None stands for its throw when no destination is stored and the
\* argument is not a pair.
DestinationAfterCheck(m, destination) ==
  IF m.destinationCoords # None THEN m.destinationCoords
  ELSE IF IsCoords(destination) THEN Some(destination)
  ELSE None

\* Steps 3 to 7 of check on monitor m for current coordinates: the monitor
\* and the result after them.
CheckSteps(m, currentLocation, destination) ==
  Bind(HaversineDistance(currentLocation[1], currentLocation[2],
                         m.destinationCoords[1][1], m.destinationCoords[1][2]),
       LAMBDA distance :
    Bind(<<ConvertToMeters(distance, KmDen, "km"),
           ConvertToMeters(m.config.radius, 1, m.config.radiusUnit),
           ConvertToMeters(OrDefault(m.config.insideBuffer, 0), 1, m.config.radiusUnit),
           ConvertToMeters(OrDefault(m.config.outsideBuffer, 0), 1, m.config.radiusUnit)>>,
         LAMBDA c :
      Bind(DetermineState(c[1] <= c[2] + c[3], m.previousState, c[1], c[2], c[3], c[4],
                          m.previousDistance),
           LAMBDA state :
        [monitor |-> [m EXCEPT !.previousState = Some(state),
                               !.previousDistance = Some(c[1]),
                               !.previousDistanceUnit = Some("km")],
         ret |-> Returned(
                   [isInside |-> c[1] <= c[2] + c[3],
                    distance |-> distance,
                    unit |-> "km",
                    state |-> state,
                    alerts |-> GenerateAlerts(
                                 state, m.previousState, distance, m.config.radius,
                                 m.config.radiusUnit, m.config,
                                 IF m.previousDistance # None /\ m.previousDistanceUnit # None
                                 THEN Some(ConvertFromMeters(m.previousDistance[1],
                                                             m.previousDistanceUnit[1]))
                                 ELSE None),
                    currentLocation |-> currentLocation,
                    destination |-> destination,
                    radius |-> m.config.radius,
                    radiusUnit |-> m.config.radiusUnit],
                   <<>>, <<>>)])))

\* GeofenceMonitor.check(currentLocation, destination), called without a
\* resolve function, on monitor m: the monitor after it and what it returns
\* or that it throws.
Check(m, currentLocation, destination) ==
  Bind(DestinationAfterCheck(m, destination), LAMBDA dest :
    IF dest = None THEN [monitor |-> m, ret |-> Thrown]
    ELSE IF ~IsCoords(currentLocation)
    THEN [monitor |-> [m EXCEPT !.destinationCoords = dest], ret |-> Thrown]
    ELSE IF HaversineThrows(currentLocation[1], currentLocation[2], dest[1][1], dest[1][2])
    THEN [monitor |-> [m EXCEPT !.destinationCoords = dest], ret |-> Thrown]
    ELSE CheckSteps([m EXCEPT !.destinationCoords = dest], currentLocation, destination))

\* monitor.check(currentLocation, destination) on the monitor of the model.
MonitorCheck(t, currentLocation, destination) ==
  /\ monitor # None
  /\ tasks[t].pc \in {"idle", "done"}
  /\ monitor' = Some(Check(monitor[1], currentLocation, destination).monitor)
  /\ tasks' = [tasks EXCEPT ![t] =
                 [pc |-> "done", op |-> "check",
                  args |-> <<currentLocation, destination>>, awaiting |-> "none",
                  ret |-> Some(Check(monitor[1], currentLocation, destination).ret)]]
  /\ UNCHANGED <<geohashIndex, polygons, metadata, loadPromise, files, _loader>>

\* monitor.reset()
MonitorReset(t) ==
  /\ monitor # None
  /\ tasks[t].pc \in {"idle", "done"}
  /\ monitor' = Some(ResetMonitor(monitor[1]))
  /\ tasks' = [tasks EXCEPT ![t] =
                 [pc |-> "done", op |-> "reset", args |-> <<>>, awaiting |-> "none",
                  ret |-> Some(Returned("undefined", <<>>, <<>>))]]
  /\ UNCHANGED <<geohashIndex, polygons, metadata, loadPromise, files, _loader>>

\* checkGeofence(currentLocation, destination, radius, radiusUnit, {config}):
\* a check on a monitor of its own.
CheckGeofence(t, currentLocation, destination, config) ==
  /\ tasks[t].pc \in {"idle", "done"}
  /\ tasks' = [tasks EXCEPT ![t] =
                 [pc |-> "done", op |-> "checkGeofence",
                  args |-> <<currentLocation, destination, config>>,
                  awaiting |-> "none",
                  ret |-> Some(Check(NewGeofenceMonitor(config), currentLocation,
                                     destination).ret)]]
  /\ UNCHANGED <<geohashIndex, polygons, metadata, loadPromise, files, _loader, monitor>>

(***************************************************************************)
(* SpecGeofence: one caller checks and resets a GeofenceMonitor and calls  *)
(* checkGeofence, with locations on the meridian of longitude 0.           *)
(***************************************************************************)

GeoMax == 6

GeofenceConfig(radius, radiusUnit, reachedThreshold, insideBuffer) ==
  [radius |-> radius, radiusUnit |-> radiusUnit, reachedThreshold |-> reachedThreshold,
   approachingThresholdPercent |-> None, leavingThresholdPercent |-> None,
   insideBuffer |-> insideBuffer, outsideBuffer |-> None]

\* A fence of 3000 m without buffer and one of 5 km with a buffer of 1 km.
GeofenceConfigs ==
  { GeofenceConfig(3000, "m", None, None),
    GeofenceConfig(5, "km", Some(2), Some(1)) }

Home == <<"h", "o", "m", "e">>

\* A latitude of 91 degrees.
OffTheMap == <<91 * CoordDen, 0>>

CurrentLocations == { <<k, 0>> : k \in 0..GeoMax } \cup { Home, OffTheMap }

Destinations == { <<0, 0>>, <<3, 0>>, Home }

GeofenceInit ==
  /\ geohashIndex = None
  /\ polygons = None
  /\ metadata = None
  /\ loadPromise = "null"
  /\ _loader = None
  /\ monitor \in { Some(NewGeofenceMonitor(c)) : c \in GeofenceConfigs }
  /\ files = None
  /\ tasks = [t \in {1} |-> IdleTask]

GeofenceNext ==
  \/ \E t \in DOMAIN tasks, c \in CurrentLocations, d \in Destinations :
       MonitorCheck(t, c, d)
  \/ \E t \in DOMAIN tasks : MonitorReset(t)
  \/ \E t \in DOMAIN tasks, c \in CurrentLocations, d \in Destinations,
        cfg \in GeofenceConfigs :
       CheckGeofence(t, c, d, cfg)

SpecGeofence == GeofenceInit /\ [][GeofenceNext]_vars

\* The step is a check of the monitor by caller t that returned a result.
CheckReturned(t) ==
  /\ tasks'[t] # tasks[t]
  /\ tasks'[t].op = "check"
  /\ ~tasks'[t].ret[1].threw

\* radius + insideBuffer of the monitor's configuration, in meters.
InsideThresholdM(config) ==
  ConvertToMeters(config.radius, 1, config.radiusUnit)
    + ConvertToMeters(OrDefault(config.insideBuffer, 0), 1, config.radiusUnit)

\* The state the transition table gives for the previous state, the previous
\* and the current distance in meters and the inside threshold.
TableState(previousState, previousDistanceM, distanceM, thresholdM) ==
  IF previousState = None
  THEN (IF distanceM <= thresholdM THEN "inside" ELSE "outside")
  ELSE IF distanceM > thresholdM
  THEN (IF previousState[1] \in {"inside", "leaving"} THEN "outside"
        ELSE IF distanceM < previousDistanceM[1] THEN "approaching"
        ELSE "outside")
  ELSE (IF previousState[1] \in {"outside", "approaching"} THEN "inside"
        ELSE IF distanceM > previousDistanceM[1] THEN "leaving"
        ELSE "inside")

\* C22: every check that returns derives its state from the monitor's
\* previous state and the change of the distance: INSIDE or OUTSIDE by
\* distance <= radius + insideBuffer on the first check; afterwards, outside
\* the fence, OUTSIDE after INSIDE or LEAVING and APPROACHING (distance
\* decreased) or OUTSIDE (otherwise) after OUTSIDE or APPROACHING; inside the
\* fence, INSIDE after OUTSIDE or APPROACHING and LEAVING (distance
\* increased) or INSIDE (otherwise) after INSIDE or LEAVING.
C22_StateFollowsTransitionTable ==
  [][\A t \in DOMAIN tasks :
       CheckReturned(t)
         => tasks'[t].ret[1].result[1].state
              = TableState(monitor[1].previousState, monitor[1].previousDistance,
                           ConvertToMeters(tasks'[t].ret[1].result[1].distance, KmDen, "km"),
                           InsideThresholdM(monitor[1].config))]_vars

\* A check inside the fence, further from the destination than the check
\* before it, returned LEAVING.
C22_Witness ==
  \E t \in DOMAIN tasks :
    /\ Finished(t, "check")
    /\ ~tasks[t].ret[1].threw
    /\ ReturnOf(t).state = "leaving"

\* How many alerts of the sequence have one of the types.
CountAlerts(alerts, types) ==
  Cardinality({ k \in 1..Len(alerts) : alerts[k].alertType \in types })

\* The distance of the check before and the distance of this check lie on
\* different sides of radius + insideBuffer.
CrossedBoundary(previousDistanceM, distanceM, thresholdM) ==
  (previousDistanceM <= thresholdM) # (distanceM <= thresholdM)

\* C23: a check returns an 'entered' alert exactly when the previous state
\* was OUTSIDE or APPROACHING and the new state is INSIDE, and an 'exited'
\* alert exactly when the previous state was INSIDE or LEAVING and the new
\* state is OUTSIDE; a check whose distance lies on the other side of the
\* boundary than the distance of the check before it returns exactly one of
\* the two alerts, every other check returns neither.
C23_EnteredExitedOnCrossings ==
  [][\A t \in DOMAIN tasks :
       CheckReturned(t)
         => \A res \in { tasks'[t].ret[1].result[1] } :
            \A prev \in { monitor[1].previousState } :
              /\ CountAlerts(res.alerts, {"entered"})
                   = IF /\ prev # None
                        /\ prev[1] \in {"outside", "approaching"}
                        /\ res.state = "inside"
                     THEN 1 ELSE 0
              /\ CountAlerts(res.alerts, {"exited"})
                   = IF /\ prev # None
                        /\ prev[1] \in {"inside", "leaving"}
                        /\ res.state = "outside"
                     THEN 1 ELSE 0
              /\ CountAlerts(res.alerts, {"entered", "exited"})
                   = IF /\ prev # None
                        /\ CrossedBoundary(monitor[1].previousDistance[1],
                                           ConvertToMeters(res.distance, KmDen, "km"),
                                           InsideThresholdM(monitor[1].config))
                     THEN 1 ELSE 0]_vars

\* A check outside the fence, after a check between radius and radius +
\* insideBuffer of the destination, returned an 'exited' alert.
C23_Witness ==
  \E t \in DOMAIN tasks :
    /\ Finished(t, "check")
    /\ ~tasks[t].ret[1].threw
    /\ CountAlerts(ReturnOf(t).alerts, {"exited"}) = 1
    /\ ReturnOf(t).alerts[1].previousDistance[1]
         > ConvertFromMeters(ConvertToMeters(ReturnOf(t).radius, 1, ReturnOf(t).radiusUnit),
                             "km")

\* C29: after every check of the monitor and every checkGeofence call that
\* returns, isInside of the result is true iff its state is INSIDE or
\* LEAVING and false iff its state is OUTSIDE or APPROACHING, and after a
\* check the previous state stored in the monitor is the state returned.
C29_IsInsideAgreesWithState ==
  [][\A t \in DOMAIN tasks :
       (/\ tasks'[t] # tasks[t]
        /\ tasks'[t].op \in {"check", "checkGeofence"}
        /\ ~tasks'[t].ret[1].threw)
         => \A res \in { tasks'[t].ret[1].result[1] } :
              /\ res.isInside \in BOOLEAN
              /\ res.state \in {"inside", "leaving", "outside", "approaching"}
              /\ res.isInside <=> res.state \in {"inside", "leaving"}
              /\ ~res.isInside <=> res.state \in {"outside", "approaching"}
              /\ tasks'[t].op = "check" => monitor'[1].previousState = Some(res.state)]_vars

\* A check between radius and radius + insideBuffer of the destination
\* returned: the point counts as inside.
C29_Witness ==
  \E t \in DOMAIN tasks :
    /\ Finished(t, "check")
    /\ ~tasks[t].ret[1].threw
    /\ ReturnOf(t).isInside
    /\ ConvertToMeters(ReturnOf(t).distance, KmDen, "km")
         > ConvertToMeters(ReturnOf(t).radius, 1, ReturnOf(t).radiusUnit)
    /\ monitor[1].previousState = Some(ReturnOf(t).state)

\* The step is a reset of the monitor by caller t.
ResetReturned(t) ==
  /\ tasks'[t] # tasks[t]
  /\ tasks'[t].op = "reset"

\* C30: the monitor fixes its destination at the first check that returns
\* since its construction or its last reset: that check measures the distance
\* to the destination passed to it, returns INSIDE or OUTSIDE and no alerts,
\* and every later check measures the distance to the same destination,
\* whatever destination it is given; reset clears the previous state, the
\* previous distance and the destination.
C30_DestinationOfFirstReturningCheck ==
  [][\A t \in DOMAIN tasks :
       /\ CheckReturned(t)
            => \A res \in { tasks'[t].ret[1].result[1] } :
               \A cur \in { tasks'[t].args[1] } :
                 IF monitor[1].previousState = None
                 THEN /\ IsCoords(tasks'[t].args[2])
                      /\ monitor'[1].destinationCoords = Some(tasks'[t].args[2])
                      /\ res.distance
                           = HaversineDistance(cur[1], cur[2], tasks'[t].args[2][1],
                                               tasks'[t].args[2][2])
                      /\ res.state \in {"inside", "outside"}
                      /\ res.alerts = <<>>
                 ELSE /\ monitor'[1].destinationCoords = monitor[1].destinationCoords
                      /\ res.distance
                           = HaversineDistance(cur[1], cur[2],
                                               monitor[1].destinationCoords[1][1],
                                               monitor[1].destinationCoords[1][2])
       /\ ResetReturned(t)
            => /\ monitor'[1].previousState = None
               /\ monitor'[1].previousDistance = None
               /\ monitor'[1].destinationCoords = None]_vars

(***************************************************************************)
(* random_coords: generateRandomCoordinatesByArea with radiusUnit          *)
(* 'degree'.  Coordinates and the radius are in 1/100 degree.  What the    *)
(* seeded generator yields for one coordinate is a sample [cos, sin, frac]:*)
(* the cosine and the sine of the angle uniform(0, 2 PI) and the value of  *)
(* Math.sqrt(random.next()) in 1/FracDen.                                  *)
(***************************************************************************)

FracDen == 2 * 2

\* The % of JavaScript: the remainder has the sign of the dividend.
JsRem(a, b) == IF a >= 0 THEN a % b ELSE -((-a) % b)

\* Math.abs(Math.cos(latRad)) as a fraction, for the centre latitudes 0, 60
\* and 90 degrees north or south; at 90 degrees it is below 0.01.
AbsCos(centerLat) ==
  IF Abs(centerLat) = 90 * CoordDen THEN <<0, 1>>
  ELSE IF Abs(centerLat) = 60 * CoordDen THEN <<1, 2>>
  ELSE <<1, 1>>

\* newLon = ((newLon + 180.0) % 360.0) - 180.0
NormalizeLon(newLon) ==
  JsRem(newLon + 180 * CoordDen, 360 * CoordDen) - 180 * CoordDen

GenerateCoordinateInCircle(center, radiusDeg, sample) ==
  LET r == (sample.frac * radiusDeg) \div FracDen
      latOffset == r * sample.cos
      lonOffset == IF 100 * AbsCos(center[1])[1] > AbsCos(center[1])[2]
                   THEN (r * sample.sin * AbsCos(center[1])[2]) \div AbsCos(center[1])[1]
                   ELSE r * sample.sin
  IN  <<Max(-90 * CoordDen, Min(90 * CoordDen, center[1] + latOffset)),
        NormalizeLon(center[2] + lonOffset)>>

\* generateRandomCoordinatesByArea(center, radius, count, {radiusUnit:
\* 'degree', seed}); samples are the samples the seed yields.
GenerateRandomCoordinatesByArea(center, radius, count, samples) ==
  IF count <= 0 THEN Thrown
  ELSE IF \/ center[1] < -90 * CoordDen \/ center[1] > 90 * CoordDen
          \/ center[2] < -180 * CoordDen \/ center[2] > 180 * CoordDen
  THEN Thrown
  ELSE IF radius < 0 THEN Thrown
  ELSE Returned([coordinates |->
                   SubSeq([i \in 1..count |->
                             GenerateCoordinateInCircle(center, radius, samples[i])],
                          1, count),
                 regionType |-> "area",
                 totalRequested |-> count,
                 totalGenerated |-> count],
                <<>>, <<>>)

MaxCoords == 2

RandomCenters ==
  { <<lat * CoordDen, lon>> :
      lat \in {-90, 0, 60, 90},
      lon \in {-180 * CoordDen, -17950, 0, 17950, 180 * CoordDen} }
    \cup { <<91 * CoordDen, 0>> }

\* Radii of -1, 0, 1 and 200 degrees.
RandomRadii == { -CoordDen, 0, CoordDen, 200 * CoordDen }

RandomSamples ==
  { [cos |-> a[1], sin |-> a[2], frac |-> f] :
      a \in { <<1, 0>>, <<0, 1>>, <<-1, 0>>, <<0, -1>> }, f \in {0, FracDen - 1} }

RandomInit ==
  /\ geohashIndex = None
  /\ polygons = None
  /\ metadata = None
  /\ loadPromise = "null"
  /\ _loader = None
  /\ monitor = None
  /\ files = None
  /\ tasks \in { [t \in {1} |-> CalledTask("generateRandomCoordinatesByArea",
                                            <<c, r, n, smp>>)] :
                   c \in RandomCenters, r \in RandomRadii,
                   n \in 0..MaxCoords, smp \in [1..MaxCoords -> RandomSamples] }

\* generateRandomCoordinatesByArea from its call to its return.
GenerateRandomCoordinatesByAreaReturn(t) ==
  /\ tasks[t].pc = "called"
  /\ tasks[t].op = "generateRandomCoordinatesByArea"
  /\ tasks' = [tasks EXCEPT ![t].pc = "done",
                 ![t].ret = Some(GenerateRandomCoordinatesByArea(
                                   tasks[t].args[1], tasks[t].args[2],
                                   tasks[t].args[3], tasks[t].args[4]))]
  /\ UNCHANGED <<_loader, monitor, geohashIndex, polygons, metadata, loadPromise, files>>

RandomNext == \E t \in DOMAIN tasks : GenerateRandomCoordinatesByAreaReturn(t)

SpecRandom == RandomInit /\ [][RandomNext]_vars

\* C24: for every centre with latitude in [-90, 90] and longitude in
\* [-180, 180], every positive radius and every positive count,
\* generateRandomCoordinatesByArea returns exactly count coordinates, each
\* with latitude in [-90, 90] and longitude in [-180, 180].
C24_CountCoordinatesInRange ==
  \A t \in DOMAIN tasks :
    (/\ Finished(t, "generateRandomCoordinatesByArea")
     /\ Abs(tasks[t].args[1][1]) <= 90 * CoordDen
     /\ Abs(tasks[t].args[1][2]) <= 180 * CoordDen
     /\ tasks[t].args[2] > 0
     /\ tasks[t].args[3] > 0)
      => /\ ~tasks[t].ret[1].threw
         /\ Len(ReturnOf(t).coordinates) = tasks[t].args[3]
         /\ \A k \in 1..Len(ReturnOf(t).coordinates) :
              /\ Abs(ReturnOf(t).coordinates[k][1]) <= 90 * CoordDen
              /\ Abs(ReturnOf(t).coordinates[k][2]) <= 180 * CoordDen

(***************************************************************************)
(* Properties of the stages of resolve, checked under Spec                 *)
(***************************************************************************)

\* The elements of a sequence.
Elements(seq) == { seq[k] : k \in 1..Len(seq) }

\* The ids the geohash index gives for the lookups at positions from..to of
\* a finished call.
IdsLookedUp(t, from, to) ==
  UNION { Elements(GetCandidateCountries(geohashIndex[1], tasks[t].ret[1].lookups[k])) :
            k \in from..to }

\* The 8 neighbours of a geohash and the neighbours of each of them.
NeighborsOfNeighbors(geohash) ==
  Elements(GetNeighbors(geohash))
    \cup UNION { Elements(GetNeighbors(n)) : n \in Elements(GetNeighbors(geohash)) }

\* The candidates of a finished call are the ids without repetition.
CandidatesAre(t, ids) ==
  /\ Elements(tasks[t].ret[1].candidates) = ids
  /\ Len(tasks[t].ret[1].candidates) = Cardinality(ids)

Score(point, rec, count) ==
  LET exts == ExteriorsOf(rec)
      first == CHOOSE e \in 1..Len(exts) :
                 /\ PointInPolygonWithHoles(point, exts[e], rec.holes)
                 /\ \A d \in 1..(e - 1) :
                      ~PointInPolygonWithHoles(point, exts[d], rec.holes)
  IN  CalculateConfidence(point, exts[first], HolesOf(rec.holes), count)

\* C26: the exhaustive fallback scan decides the result only when no
\* candidate matched; the candidate list names no country twice and the
\* fallback yields no country of the candidate set, so none is tested twice;
\* a country it matches has the confidence
\* 0.95 x score(point, matched exterior, holes, 1), and a candidate match has
\* score(point, matched exterior, holes, number of candidates) undiscounted.
C26_FallbackOnlyAfterNoCandidateMatch ==
  \A t \in DOMAIN tasks :
    ResolveReturned(t)
      => \A cs \in { tasks[t].ret[1].candidates } :
           /\ Cardinality(Elements(cs)) = Len(cs)
           /\ \A m \in Elements(FallbackScan(tasks[t].args, AllCountryIds(metadata[1]), 1,
                                             cs, polygons[1])) :
                /\ m.countryId \notin Elements(cs)
                /\ m.confidence
                     = (95 * Score(tasks[t].args, polygons[1][m.countryId], 1)) \div 100
           /\ ResultOf(t).countryId # None
                => \A id \in { ResultOf(t).countryId[1] } :
                     IF MatchingCandidates(t) # {}
                     THEN /\ id \in Elements(cs)
                          /\ ResultOf(t).confidence
                               = Score(tasks[t].args, polygons[1][id], Len(cs))
                     ELSE /\ id \notin Elements(cs)
                          /\ ResultOf(t).confidence
                               = (95 * Score(tasks[t].args, polygons[1][id], 1)) \div 100

\* No candidate of two or more matched and resolve returned a country outside
\* the candidate set whose discounted confidence differs from what the
\* number of candidates would give.
C26_Witness ==
  \E t \in DOMAIN tasks :
    /\ ResolveReturned(t)
    /\ Len(tasks[t].ret[1].candidates) >= 2
    /\ MatchingCandidates(t) = {}
    /\ ResultOf(t).countryId # None
    /\ ResultOf(t).countryId[1] \notin Elements(tasks[t].ret[1].candidates)
    /\ ResultOf(t).confidence
         = (95 * Score(tasks[t].args, polygons[1][ResultOf(t).countryId[1]], 1)) \div 100
    /\ ResultOf(t).confidence
         # (95 * Score(tasks[t].args, polygons[1][ResultOf(t).countryId[1]],
                       Len(tasks[t].ret[1].candidates))) \div 100

\* The position of the best match among the matching candidates: the first
\* of those with the highest confidence.
BestCandidate(t) ==
  CHOOSE k \in MatchingCandidates(t) :
    \A j \in MatchingCandidates(t) :
      \/ CandidateConfidence(t, j) < CandidateConfidence(t, k)
      \/ CandidateConfidence(t, j) = CandidateConfidence(t, k) /\ k <= j

\* A country that is no candidate, with a metadata and a polygon record,
\* encloses the query point.
FallbackFinds(t) ==
  \E c \in (DOMAIN metadata[1] \cap DOMAIN polygons[1])
             \ Elements(tasks[t].ret[1].candidates) :
    Encloses(tasks[t].args, polygons[1][c])

\* C27: resolve throws, without a result, exactly when the best match has no
\* metadata record.  A candidate without a polygon record is passed over:
\* when other candidates match the best of them is selected, and when none
\* matches the exhaustive fallback decides whether a country is returned.
C27_MissingMetadataThrowsMissingPolygonSkipped ==
  \A t \in DOMAIN tasks :
    (Finished(t, "resolve") /\ InRange(tasks[t].args))
      => IF MatchingCandidates(t) # {}
         THEN IF tasks[t].ret[1].candidates[BestCandidate(t)] \in DOMAIN metadata[1]
              THEN /\ ~tasks[t].ret[1].threw
                   /\ ResultOf(t).countryId
                        = Some(tasks[t].ret[1].candidates[BestCandidate(t)])
              ELSE /\ tasks[t].ret[1].threw
                   /\ tasks[t].ret[1].result = None
         ELSE /\ ~tasks[t].ret[1].threw
              /\ ResultOf(t).countryId # None <=> FallbackFinds(t)

\* The first candidate matched and has no metadata record, the second has no
\* polygon record: resolve passed over the second and threw.
C27_Witness ==
  \E t \in DOMAIN tasks :
    /\ Finished(t, "resolve")
    /\ tasks[t].ret[1].threw
    /\ tasks[t].ret[1].result = None
    /\ MatchingCandidates(t) # {}
    /\ tasks[t].ret[1].candidates[BestCandidate(t)] \notin DOMAIN metadata[1]
    /\ \E k \in 1..Len(tasks[t].ret[1].candidates) :
         tasks[t].ret[1].candidates[k] \notin DOMAIN polygons[1]

(***************************************************************************)
(* resolveByCountry on an empty identifier, checked under SpecReverse      *)
(***************************************************************************)

\* No record of the table has an empty ISO2, ISO3 or name.
NoEmptyIdentifier(meta) ==
  \A id \in DOMAIN meta :
    /\ meta[id].iso2 # <<>>
    /\ meta[id].iso3 # <<>>
    /\ NormalizeCountryName(meta[id].name) # <<>>

\* C28: with a non-empty metadata table none of whose records has an empty
\* ISO2, ISO3 or name, findCountryByNameOrIso selects the first record in
\* iteration order for an empty or blank identifier, so resolveByCountry
\* does not end with the not-found error: it returns that record with
\* confidence 1.0 (or fails for want of its polygon).
C28_EmptyInputSelectsFirstRecord ==
  \A t \in DOMAIN tasks :
    (/\ Finished(t, "resolveByCountry")
     /\ Loaded
     /\ DOMAIN metadata[1] # {}
     /\ NoEmptyIdentifier(metadata[1])
     /\ Trim(tasks[t].args[1]) = <<>>)
      => \A first \in { AllCountryIds(metadata[1])[1] } :
           /\ FindCountryByNameOrIso(tasks[t].args[1], metadata[1]) = Some(first)
           /\ IF HasCentroid(polygons[1], first)
              THEN ReturnedRecord(t, first) /\ ReturnOf(t).confidence = ConfDen
              ELSE tasks[t].ret[1].threw

\* A finished call given two blanks returned the first record of the table
\* with confidence 1.0.
C28_Witness ==
  \E t \in DOMAIN tasks :
    /\ Finished(t, "resolveByCountry")
    /\ Loaded
    /\ tasks[t].args[1] = <<" ", " ">>
    /\ ReturnedRecord(t, AllCountryIds(metadata[1])[1])
    /\ ReturnOf(t).confidence = ConfDen

====
